---- MODULE Spec2Model ----
(***************************************************************************)
(* Policy enforcer of the kata agent (src/agent/src/policy.rs): the        *)
(* AGENT_POLICY singleton behind its async mutex, the request paths        *)
(* is_allowed / is_allowed_copy_file / do_set_policy / get_string_value,   *)
(* AgentPolicy::initialize, and the OPA engine they talk to over HTTP      *)
(* (specification Spec, and FairSpec with the scheduling of the callers);  *)
(* applied to arguments drawn from bounded sets, the request rewriting of  *)
(* is_allowed_copy_file, Container::get_process of genpolicy's             *)
(* registry.rs and the cc-policy tool (specification FnSpec); and the      *)
(* layer pipeline of registry.rs, get_image_layers and get_verity_hash     *)
(* over the layers_cache directory, run after run (specification           *)
(* LayerSpec).                                                             *)
(***************************************************************************)
EXTENDS Integers, Sequences, FiniteSets, TLC

(***************************************************************************)
(* Bounds of the model.                                                    *)
(***************************************************************************)
NumProcs == 2
MaxCalls == 3

Procs == 1..NumProcs
NoProc == 0

(***************************************************************************)
(* Program constants.                                                      *)
(***************************************************************************)
EMPTY_JSON_INPUT == "{\"input\":{}}"
OPA_DATA_PATH == "/data"
OPA_POLICIES_PATH == "/policies"
POLICY_LOG_FILE == "/tmp/policy.txt"
InitAttempts == 50
S_IFLNK == 40960

(***************************************************************************)
(* Policy documents.  A document is its text; what the engine derives from *)
(* a text (the value of each rule for each input) is kept beside it.       *)
(*   AllowRequestsFailingPolicy: value of that rule, or "undefined"        *)
(*   defined: the request rules the document defines                      *)
(*   allow:   the <<rule, input>> pairs for which a defined rule is true   *)
(***************************************************************************)
ReqCreate == "{\"container_id\":\"c1\"}"
ReqStats == "{\"container_id\":\"c1\"}"
ReqCopyFile == "{\"path\":\"/t\",\"file_size\":11,\"file_mode\":33188,\"dir_mode\":493,\"uid\":0,\"gid\":0,\"offset\":0,\"symlink_src\":\"\"}"

Input(request) == "{\"input\":" \o request \o "}"

PolicyA ==
    [text |-> "package agent_policy # A",
     AllowRequestsFailingPolicy |-> "undefined",
     defined |-> {"SetPolicyRequest", "CreateContainerRequest", "CopyFileRequest"},
     allowAny |-> {"SetPolicyRequest", "CreateContainerRequest"},
     allow |-> {<<"CopyFileRequest", Input(ReqCopyFile)>>}]

PolicyB ==
    [text |-> "package agent_policy # B",
     AllowRequestsFailingPolicy |-> "true",
     defined |-> {"SetPolicyRequest", "CreateContainerRequest", "CopyFileRequest"},
     allowAny |-> {},
     allow |-> {}]

PolicyC ==
    [text |-> "package agent_policy # C",
     AllowRequestsFailingPolicy |-> "false",
     defined |-> {"SetPolicyRequest", "CreateContainerRequest"},
     allowAny |-> {"CreateContainerRequest"},
     allow |-> {}]

Policies == {PolicyA, PolicyB, PolicyC}
PolicyTexts == {P.text : P \in Policies}
NoPolicy == "<none>"

DocOf(text) == CHOOSE P \in Policies : P.text = text

\* Value the engine computes for rule `ep` of the installed text on `input`.
RuleValue(text, ep, input) ==
    IF text = NoPolicy THEN "undefined"
    ELSE LET P == DocOf(text) IN
         IF ep = "AllowRequestsFailingPolicy" THEN P.AllowRequestsFailingPolicy
         ELSE IF ep \notin P.defined THEN "undefined"
         ELSE IF ep \in P.allowAny \/ <<ep, input>> \in P.allow THEN "true"
         ELSE "false"

\* Body of the engine's 200 answer to POST /v1/data/<name>/<ep>.
BodyTrue == "{\"result\":true}"
BodyFalse == "{\"result\":false}"
BodyUndefined == "{}"

EngineBody(text, ep, input) ==
    LET v == RuleValue(text, ep, input) IN
    IF v = "true" THEN BodyTrue
    ELSE IF v = "false" THEN BodyFalse
    ELSE BodyUndefined

(***************************************************************************)
(* SHA-256 is collision resistant: the digest of a text is a value that    *)
(* only that text has.  The all-zero host_data is the digest of no text.   *)
(***************************************************************************)
Sha256(text) == <<"sha256", text>>
ZeroHostData == <<"sha256", "<zero>">>
HostDatas == {Sha256(PolicyA.text), Sha256(PolicyB.text), ZeroHostData}

(***************************************************************************)
(* HTTP exchanges with the engine.  A call either fails in transport       *)
(* (send() is Err), or yields a response with a status; the body of a 200  *)
(* response is read by text(), which can fail too.                         *)
(***************************************************************************)
NoResp == [kind |-> "none", status |-> 0, text_ok |-> FALSE, text |-> ""]
SendError == [kind |-> "send_error", status |-> 0, text_ok |-> FALSE, text |-> ""]
Http(status, text_ok, text) ==
    [kind |-> "http", status |-> status, text_ok |-> text_ok, text |-> text]

\* What the engine can answer to POST query_path/<ep> with body `input`.
PostResponses(text, ep, input) ==
    {SendError,
     Http(500, TRUE, ""),
     Http(200, FALSE, ""),
     Http(200, TRUE, EngineBody(text, ep, input))}

\* What the engine can answer to PUT / DELETE policy_path; only a 200 has
\* taken effect.
PolicyResponses == {SendError, Http(500, TRUE, ""), Http(200, TRUE, "")}

\* serde_json::from_str::<AllowResponse>
ParseAllowResponse(text) ==
    IF text = BodyTrue THEN [ok |-> TRUE, result |-> TRUE]
    ELSE IF text = BodyFalse THEN [ok |-> TRUE, result |-> FALSE]
    ELSE [ok |-> FALSE, result |-> FALSE]

(***************************************************************************)
(* Result<bool> of post_query.                                             *)
(***************************************************************************)
Pending == [done |-> FALSE, ok |-> FALSE, val |-> FALSE]
OkBool(b) == [done |-> TRUE, ok |-> TRUE, val |-> b]
ErrBool == [done |-> TRUE, ok |-> FALSE, val |-> FALSE]

\* A post_query that lets an unparseable body through.
PostQueryResultUndefinedAllows(resp, af) ==
    IF resp.kind # "http" THEN ErrBool
    ELSE IF resp.status # 200 THEN ErrBool
    ELSE IF ~resp.text_ok THEN ErrBool
    ELSE LET opa_response == ParseAllowResponse(resp.text) IN
         IF opa_response.ok
         THEN IF ~opa_response.result
              THEN IF af THEN OkBool(TRUE) ELSE OkBool(FALSE)
              ELSE OkBool(opa_response.result)
         ELSE OkBool(TRUE)

\* A post_query without the override of a false result.
PostQueryResultNoOverride(resp, af) ==
    IF resp.kind # "http" THEN ErrBool
    ELSE IF resp.status # 200 THEN ErrBool
    ELSE IF ~resp.text_ok THEN ErrBool
    ELSE LET opa_response == ParseAllowResponse(resp.text) IN
         IF opa_response.ok
         THEN OkBool(opa_response.result)
         ELSE IF af THEN OkBool(TRUE) ELSE OkBool(FALSE)

\* post_query once its response is in: status check, text(), parse, and the
\* allow_failures override.
PostQueryResult(resp, af) ==
    IF resp.kind # "http" THEN ErrBool
    ELSE IF resp.status # 200 THEN ErrBool
    ELSE IF ~resp.text_ok THEN ErrBool
    ELSE LET opa_response == ParseAllowResponse(resp.text) IN
         IF opa_response.ok
         THEN IF ~opa_response.result
              THEN IF af THEN OkBool(TRUE) ELSE OkBool(FALSE)
              ELSE OkBool(opa_response.result)
         ELSE IF af THEN OkBool(TRUE) ELSE OkBool(FALSE)

\* An allow_request that lets a failed query through.
AllowRequestResultErrAllows(ret) == IF ret.ok THEN ret.val ELSE TRUE

\* AgentPolicy::allow_request: Err(e) => false, Ok(allowed) => allowed.
AllowRequestResult(ret) == IF ret.ok THEN ret.val ELSE FALSE

\* A check_policy_hash that accepts every digest.
CheckPolicyHashAcceptsAll(policy, hd) == TRUE

\* check_policy_hash with the report in hand.
CheckPolicyHash(policy, hd) == hd = Sha256(policy)

(***************************************************************************)
(* CopyFileRequest and its rewriting into PolicyCopyFileRequest.           *)
(***************************************************************************)
\* Byte strings.  The model's bytes are '/', 't', '"' and 0xFF; 0xFF occurs
\* in no UTF-8 encoding, the other three are ASCII.
Bytes == {47, 116, 34, 255}

AsciiChar(b) == IF b = 47 THEN "/" ELSE IF b = 116 THEN "t" ELSE "\""

\* std::str::from_utf8(bytes).is_ok(), for sequences of the model's bytes.
Utf8Valid(bytes) == \A k \in 1..Len(bytes) : bytes[k] < 128

\* serde_json's rendering of the characters of a string: '"' is escaped.
RECURSIVE JsonEscape(_)
JsonEscape(bytes) ==
    IF bytes = <<>> THEN ""
    ELSE (IF Head(bytes) = 34 THEN "\\\"" ELSE AsciiChar(Head(bytes)))
         \o JsonEscape(Tail(bytes))

JsonString(bytes) == "\"" \o JsonEscape(bytes) \o "\""

\* serde_json's rendering of a struct: its fields in declaration order.
RECURSIVE JsonMembers(_)
JsonMembers(fields) ==
    IF fields = <<>> THEN ""
    ELSE "\"" \o Head(fields)[1] \o "\":" \o Head(fields)[2]
         \o (IF Len(fields) > 1 THEN "," ELSE "")
         \o JsonMembers(Tail(fields))

JsonObject(fields) == "{" \o JsonMembers(fields) \o "}"

\* A contains() that is true when any bit of S_IFLNK is set.
ContainsIFLNKAnyBit(mode) ==
    \/ (mode \div 32768) % 2 = 1
    \/ (mode \div 8192) % 2 = 1

\* sflag.contains(S_IFLNK): every bit of S_IFLNK (0o120000) is set in mode.
ContainsIFLNK(mode) ==
    /\ (mode \div 32768) % 2 = 1
    /\ (mode \div 8192) % 2 = 1

\* The CopyFileRequests the callers of the enforcer make.
CopyFileRequests ==
    [path : {<<47, 116>>}, file_size : {11}, file_mode : {33188, S_IFLNK + 511},
     dir_mode : {493}, uid : {0}, gid : {0}, offset : {0},
     data : {<<47, 116>>, <<47, 255>>}]

\* The struct is_allowed_copy_file builds; PathBuf::from(OsStr::from_bytes(..))
\* keeps the bytes as they are.
PolicyCopyFileRequest(req) ==
    [path |-> req.path, file_size |-> req.file_size, file_mode |-> req.file_mode,
     dir_mode |-> req.dir_mode, uid |-> req.uid, gid |-> req.gid,
     offset |-> req.offset,
     symlink_src |-> IF ContainsIFLNK(req.file_mode) THEN req.data ELSE <<>>]

\* #[derive(Serialize)] of PolicyCopyFileRequest: names and rendered values.
PolicyCopyFileRequestFields(r) ==
    << <<"path", JsonString(r.path)>>,
       <<"file_size", ToString(r.file_size)>>,
       <<"file_mode", ToString(r.file_mode)>>,
       <<"dir_mode", ToString(r.dir_mode)>>,
       <<"uid", ToString(r.uid)>>,
       <<"gid", ToString(r.gid)>>,
       <<"offset", ToString(r.offset)>>,
       <<"symlink_src", JsonString(r.symlink_src)>> >>

\* serde_json::to_string of a PolicyCopyFileRequest: a PathBuf that is not
\* valid UTF-8 is an error.
SerializePolicyCopyFileRequest(r) ==
    IF Utf8Valid(r.symlink_src)
    THEN [ok |-> TRUE, fields |-> PolicyCopyFileRequestFields(r),
          text |-> JsonObject(PolicyCopyFileRequestFields(r))]
    ELSE [ok |-> FALSE, fields |-> <<>>, text |-> ""]

\* is_allowed_copy_file up to its lock(): the arguments it has for
\* allow_request, or the panic of unwrap() on a serialization error.
CopyFileEnvelope(req) ==
    LET request == SerializePolicyCopyFileRequest(PolicyCopyFileRequest(req)) IN
    [panicked |-> ~request.ok, ep |-> "CopyFileRequest",
     fields |-> request.fields, request |-> request.text]

\* serde_json::to_string of a SetPolicyRequest.
SerializeSetPolicyRequest(policy) == "{\"policy\":\"" \o policy \o "\"}"

(***************************************************************************)
(* State.                                                                  *)
(***************************************************************************)
VARIABLES
    pc,             \* position of each caller
    op,             \* the call each caller is in: entry point and arguments
    lock,           \* holder of the AGENT_POLICY mutex, or NoProc
    allow_failures, \* AgentPolicy.allow_failures
    query_path,     \* AgentPolicy.query_path
    policy_path,    \* AgentPolicy.policy_path
    opa_client,     \* AgentPolicy.opa_client is Some
    log_file,       \* AgentPolicy.log_file is Some
    audit_log,      \* contents of /tmp/policy.txt
    engine_policy,  \* text installed in the engine at policy_path
    engine_spawned, \* start_opa spawned the engine
    host_data,      \* host_data of the attestation report
    default_policy, \* contents of the default policy file
    cur,            \* locals of the call that holds the lock
    init_called,    \* initialize has been called
    init_result,    \* history: what initialize returned, "none" before it has
    calls,          \* number of calls made so far
    installed,      \* history: texts whose PUT by the enforcer took effect
    swap,           \* history: the latest do_set_policy call and the complete
                    \* configurations <<policy, allow_failures>> around it
    concurrent,     \* history: callers whose call overlapped that call
    fn,             \* the function applied outside the enforcer, or "none"
    fn_args,        \* its arguments
    fn_out,         \* its result, NoOutput until it has been applied
    image,          \* the image genpolicy resolves: manifest, diff_ids, content
    layers_cache,   \* the directory layers_cache and its files
    gen,            \* locals of the running get_image_layers
    returned        \* history: <<layer digest, verity hash>> of every
                    \* get_verity_hash that returned Ok

vars == <<pc, op, lock, allow_failures, query_path, policy_path, opa_client,
          log_file, audit_log, engine_policy, engine_spawned, host_data,
          default_policy, cur, init_called, init_result, calls, installed, swap,
          concurrent, fn, fn_args, fn_out, image, layers_cache, gen,
          returned>>

agent == <<pc, op, lock, allow_failures, query_path, policy_path, opa_client,
           log_file, audit_log, engine_policy, engine_spawned, host_data,
           default_policy, cur, init_called, init_result, calls, installed,
           swap, concurrent>>
fncall == <<fn, fn_args, fn_out>>
generator == <<image, layers_cache, gen, returned>>
tools == <<fncall, generator>>
NoOutput == <<>>

\* No image, no layers_cache directory, no run of genpolicy.
NoImage == [layers |-> <<>>, diff_ids |-> <<>>, content |-> "none"]
NoFiles == [path \in {} |-> <<>>]
NoCache == [exists |-> FALSE, files |-> NoFiles]
NoRun == [pc |-> "none"]
GeneratorIdle ==
    /\ image = NoImage
    /\ layers_cache = NoCache
    /\ gen = NoRun
    /\ returned = {}

enforcer == <<allow_failures, query_path, policy_path, opa_client, log_file>>
env == <<host_data, default_policy>>

NoOp == [kind |-> "none", ep |-> "", request |-> "", policy |-> "",
         launch_opa |-> FALSE]

\* The enforcer's fields other than allow_failures, the audit log file and
\* whether the engine was spawned, as a call finds them.
Snapshot(lf, qp, pp, oc, al, es) ==
    [log_file |-> lf, query_path |-> qp, policy_path |-> pp, opa_client |-> oc,
     audit_log |-> al, engine_spawned |-> es]
NoSnapshot == Snapshot(FALSE, "", "", FALSE, <<>>, FALSE)

CurInit ==
    [stage |-> "none",      \* which post_query is running: "gate" or "probe"
     i |-> 0,               \* loop counter of initialize
     resp |-> NoResp,       \* response to the latest post_query
     af0 |-> FALSE,         \* allow_failures when that post_query ran
     ret |-> Pending,       \* what that post_query returned
     allowed |-> FALSE,     \* what AgentPolicy::allow_request returned
     result |-> "pending",  \* what the entry point returns
     message |-> "",        \* message of the error it returns
     logged |-> "no",       \* log_opa_input: "skipped", "written", "failed"
     puts |-> 0,            \* PUTs initialize has sent
     sleeps |-> 0,          \* sleep(100 ms) calls initialize has made
     trace |-> <<>>,        \* steps of the call so far
     old_policy |-> NoPolicy, \* engine policy when the lock was taken
     old_af |-> FALSE,      \* allow_failures when the lock was taken
     old |-> NoSnapshot]    \* the rest of the state when the lock was taken

NoSwap == [seen |-> FALSE, ok |-> {}]

AgentInit ==
    /\ pc = [p \in Procs |-> "idle"]
    /\ op = [p \in Procs |-> NoOp]
    /\ lock = NoProc
    /\ allow_failures = FALSE
    /\ query_path = ""
    /\ policy_path = ""
    /\ opa_client = FALSE
    /\ log_file = FALSE
    /\ audit_log = <<>>
    /\ engine_policy = NoPolicy
    /\ engine_spawned = FALSE
    /\ host_data \in HostDatas
    /\ default_policy \in PolicyTexts
    /\ cur = CurInit
    /\ init_called = FALSE
    /\ init_result = "none"
    /\ calls = 0
    /\ installed = {}
    /\ swap = NoSwap
    /\ concurrent = {}

Init ==
    /\ AgentInit
    /\ fn = "none"
    /\ fn_args = <<>>
    /\ fn_out = NoOutput
    /\ GeneratorIdle

(***************************************************************************)
(* Entry points up to the lock.  Every entry point starts by waiting in    *)
(* AGENT_POLICY.lock().await; nothing reads what a waiting caller carries  *)
(* (its entry point, its serialized request) before it holds the lock, so  *)
(* the model draws them in the step that takes the lock.                   *)
(***************************************************************************)
Requests ==
    {<<"CreateContainerRequest", ReqCreate>>,
     <<"StatsContainerRequest", ReqStats>>}

CanCall(p) == pc[p] = "idle" /\ calls < MaxCalls

\* A replacement is under way: the lock holder is a do_set_policy call that
\* has sent its DELETE.
Replacing ==
    /\ lock # NoProc
    /\ op[lock].kind = "do_set_policy"
    /\ \E k \in 1..Len(cur.trace) : cur.trace[k] = "DELETE"

\* A caller enters one of the entry points and reaches lock().await.
Call(p) ==
    /\ CanCall(p)
    /\ pc' = [pc EXCEPT ![p] = "lock"]
    /\ calls' = calls + 1
    /\ concurrent' = IF Replacing THEN concurrent \cup {p} ELSE concurrent
    /\ UNCHANGED <<op, lock, enforcer, audit_log, engine_policy, engine_spawned,
                   env, tools, cur, init_called, init_result, installed, swap>>

\* A lock() that never waits.
LockFreeAlways == TRUE

\* tokio Mutex: lock() completes only when nobody holds the mutex.
LockFree == lock = NoProc

Gated == {"is_allowed", "is_allowed_copy_file", "do_set_policy"}

\* lock().await completes for caller p, which is in call o.
Lock(p, o) ==
    /\ pc[p] = "lock"
    /\ LockFree
    /\ lock' = p
    /\ op' = [op EXCEPT ![p] = o]
    /\ pc' = [pc EXCEPT ![p] =
                 IF o.kind \in Gated THEN "log_opa_input"
                 ELSE IF o.kind = "get_string_value" THEN "get_data"
                 ELSE "initialize"]
    /\ cur' = [CurInit EXCEPT !.old_policy = engine_policy,
                              !.old_af = allow_failures,
                              !.old = Snapshot(log_file, query_path,
                                               policy_path, opa_client,
                                               audit_log, engine_spawned),
                              !.stage = IF o.kind \in Gated THEN "gate"
                                        ELSE "none"]
    /\ UNCHANGED <<enforcer, audit_log, engine_policy, engine_spawned, env, tools,
                   calls, installed, swap, concurrent>>

is_allowed(p) ==
    /\ \E r \in Requests :
         Lock(p, [NoOp EXCEPT !.kind = "is_allowed", !.ep = r[1],
                              !.request = r[2]])
    /\ UNCHANGED <<init_called, init_result>>

\* The caller's task panics before it reaches lock(): the call is over and
\* the enforcer has not been touched.
Panic(p) ==
    /\ pc[p] = "lock"
    /\ pc' = [pc EXCEPT ![p] = "idle"]
    /\ concurrent' = concurrent \ {p}
    /\ UNCHANGED <<op, lock, enforcer, audit_log, engine_policy, engine_spawned,
                   env, tools, cur, calls, installed, swap>>

\* What is_allowed_copy_file makes of the callers' requests.
CopyFileEnvelopes == {CopyFileEnvelope(req) : req \in CopyFileRequests}

is_allowed_copy_file(p) ==
    /\ pc[p] = "lock"
    /\ \E call \in CopyFileEnvelopes :
         IF call.panicked
         THEN Panic(p)
         ELSE Lock(p, [NoOp EXCEPT !.kind = "is_allowed_copy_file",
                                   !.ep = call.ep,
                                   !.request = call.request])
    /\ UNCHANGED <<init_called, init_result>>

do_set_policy(p) ==
    /\ \E policy \in PolicyTexts :
         Lock(p, [NoOp EXCEPT !.kind = "do_set_policy",
                              !.ep = "SetPolicyRequest",
                              !.request = SerializeSetPolicyRequest(policy),
                              !.policy = policy])
    /\ UNCHANGED <<init_called, init_result>>

get_string_value(p) ==
    /\ Lock(p, [NoOp EXCEPT !.kind = "get_string_value",
                            !.ep = "kata-agent/key"])
    /\ UNCHANGED <<init_called, init_result>>

\* Called once, by the agent's start-up task.
MainTask == 1

initialize(p) ==
    /\ p = MainTask
    /\ ~init_called
    /\ init_called' = TRUE
    /\ UNCHANGED init_result
    /\ \E launch_opa \in BOOLEAN :
         Lock(p, [NoOp EXCEPT !.kind = "initialize",
                              !.policy = default_policy,
                              !.launch_opa = launch_opa])

(***************************************************************************)
(* The gate: AgentPolicy::allow_request = log_opa_input, then post_query.  *)
(***************************************************************************)
\* A log_opa_input that leaves no endpoint out.
NotLoggedNone == {}

NotLogged == {"StatsContainerRequest", "ReadStreamRequest", "SetPolicyRequest"}

LogEntry(ep, input) == "[\"ep\":\"" \o ep \o "\"," \o input \o "],\n\n"

\* log_opa_input; a failed write_all or flush is only warned about.
LogOpaInput(p) ==
    /\ pc[p] = "log_opa_input"
    /\ IF log_file /\ op[p].ep \notin NotLogged
       THEN \E written \in BOOLEAN :
              /\ audit_log' = IF written
                              THEN Append(audit_log,
                                          LogEntry(op[p].ep, Input(op[p].request)))
                              ELSE audit_log
              /\ cur' = [cur EXCEPT !.trace = Append(@, "log"),
                                    !.logged = IF written THEN "written"
                                               ELSE "failed"]
       ELSE /\ UNCHANGED audit_log
            /\ cur' = [cur EXCEPT !.trace = Append(@, "log"),
                                  !.logged = "skipped"]
    /\ pc' = [pc EXCEPT ![p] = "post_query"]
    /\ UNCHANGED <<op, lock, enforcer, engine_policy, engine_spawned, env, tools,
                   init_called, init_result, calls, installed, swap, concurrent>>

\* The rule and the body of the post_query that is running.
QueryEp(p) ==
    IF cur.stage = "probe" THEN "AllowRequestsFailingPolicy" ELSE op[p].ep
QueryInput(p) ==
    IF cur.stage = "probe" THEN EMPTY_JSON_INPUT ELSE Input(op[p].request)

\* An error message that quotes the request.
DeniedMessageWithRequest(ep, request) ==
    ep \o " is blocked by policy: " \o request

\* The message of the PERMISSION_DENIED error of the free function
\* allow_request(policy, ep, request).
DeniedMessage(ep, request) == ep \o " is blocked by policy"

\* A do_set_policy that drops the gate's answer (no `?`).
GateOutcomeSetPolicyUnchecked(kind, allowed) ==
    IF kind = "do_set_policy" THEN [pc |-> "set_policy", result |-> "pending"]
    ELSE IF ~allowed THEN [pc |-> "return", result |-> "PERMISSION_DENIED"]
    ELSE [pc |-> "return", result |-> "Ok"]

\* The free function allow_request and, in do_set_policy, the `?` after it.
GateOutcome(kind, allowed) ==
    IF ~allowed THEN [pc |-> "return", result |-> "PERMISSION_DENIED"]
    ELSE IF kind = "do_set_policy" THEN [pc |-> "set_policy", result |-> "pending"]
    ELSE [pc |-> "return", result |-> "Ok"]

\* A probe whose error is dropped (no `?`).
ProbeOutcomeUnchecked(kind, ret) == "Ok"

\* The probe's `self.allow_failures = self.post_query(..).await?`.
ProbeOutcome(kind, ret) ==
    IF ret.ok THEN "Ok"
    ELSE IF kind = "do_set_policy" THEN "INVALID_ARGUMENT"
    ELSE "Err"

\* What follows a post_query that returned `ret` after response `resp`.
PostQueryDone(p, resp, ret) ==
    IF cur.stage = "gate"
    THEN LET allowed == AllowRequestResult(ret)
             out == GateOutcome(op[p].kind, allowed) IN
         /\ pc' = [pc EXCEPT ![p] = out.pc]
         /\ cur' = [cur EXCEPT !.resp = resp, !.af0 = allow_failures,
                               !.ret = ret, !.allowed = allowed,
                               !.result = out.result,
                               !.message =
                                   IF allowed THEN ""
                                   ELSE DeniedMessage(op[p].ep, op[p].request)]
         /\ UNCHANGED <<allow_failures, swap>>
    ELSE /\ pc' = [pc EXCEPT ![p] = "return"]
         /\ cur' = [cur EXCEPT !.resp = resp, !.af0 = allow_failures,
                               !.ret = ret,
                               !.result = ProbeOutcome(op[p].kind, ret)]
         /\ allow_failures' = IF ret.ok THEN ret.val ELSE allow_failures
         /\ swap' = IF op[p].kind = "do_set_policy" /\ ret.ok
                       /\ engine_policy = op[p].policy
                    THEN [swap EXCEPT !.ok = @ \cup {<<op[p].policy, ret.val>>}]
                    ELSE swap

\* post_query up to send(): without a client it bails at once.
PostQuerySend(p) ==
    /\ pc[p] = "post_query"
    /\ IF opa_client
       THEN /\ pc' = [pc EXCEPT ![p] = "post_wait"]
            /\ cur' = [cur EXCEPT !.trace = Append(@, cur.stage)]
            /\ UNCHANGED <<allow_failures, swap>>
       ELSE PostQueryDone(p, NoResp, ErrBool)
    /\ UNCHANGED <<op, lock, query_path, policy_path, opa_client, log_file,
                   audit_log, engine_policy, engine_spawned, env, tools, init_called, init_result,
                   calls, installed, concurrent>>

\* The engine evaluates the query on the text it holds and answers.
PostQueryRecv(p) ==
    /\ pc[p] = "post_wait"
    /\ \E resp \in PostResponses(engine_policy, QueryEp(p), QueryInput(p)) :
         PostQueryDone(p, resp, PostQueryResult(resp, allow_failures))
    /\ UNCHANGED <<op, lock, query_path, policy_path, opa_client, log_file,
                   audit_log, engine_policy, engine_spawned, env, tools, init_called, init_result,
                   calls, installed, concurrent>>

(***************************************************************************)
(* AgentPolicy::set_policy.                                                *)
(***************************************************************************)
Fail(p, result) ==
    /\ pc' = [pc EXCEPT ![p] = "return"]
    /\ cur' = [cur EXCEPT !.result = result]

\* bail!(message)
Bail(p, message) ==
    /\ pc' = [pc EXCEPT ![p] = "return"]
    /\ cur' = [cur EXCEPT !.result = "Err", !.message = message]

\* check_policy_hash, the client check, and the DELETE being sent.
SetPolicy(p) ==
    /\ pc[p] = "set_policy"
    /\ \E report_ok \in BOOLEAN :
         IF ~report_ok \/ ~CheckPolicyHash(op[p].policy, host_data) \/ ~opa_client
         THEN /\ pc' = [pc EXCEPT ![p] = "return"]
              /\ cur' = [cur EXCEPT !.result = "INVALID_ARGUMENT",
                                    !.trace = Append(@, "hash")]
              /\ UNCHANGED <<swap, concurrent>>
         ELSE /\ pc' = [pc EXCEPT ![p] = "delete_wait"]
              /\ cur' = [cur EXCEPT !.trace = @ \o <<"hash", "DELETE">>]
              /\ swap' = [seen |-> TRUE,
                          ok |-> {<<cur.old_policy, cur.old_af>>}]
              /\ concurrent' = {q \in Procs : q # p /\ pc[q] = "lock"}
    /\ UNCHANGED <<op, lock, enforcer, audit_log, engine_policy, engine_spawned,
                   env, tools, init_called, init_result, calls, installed>>

\* The DELETE's outcome; on Ok(_) of send() the PUT is sent.
DeleteRecv(p) ==
    /\ pc[p] = "delete_wait"
    /\ \E resp \in PolicyResponses :
         IF resp.kind = "send_error"
         THEN /\ Fail(p, "INVALID_ARGUMENT")
              /\ UNCHANGED engine_policy
         ELSE /\ engine_policy' = IF resp.status = 200 THEN NoPolicy
                                  ELSE engine_policy
              /\ pc' = [pc EXCEPT ![p] = "put_wait"]
              /\ cur' = [cur EXCEPT !.trace = Append(@, "PUT")]
    /\ UNCHANGED <<op, lock, enforcer, audit_log, engine_spawned, env, tools,
                   init_called, init_result, calls, installed, swap, concurrent>>

\* The PUT's outcome; on Ok(_) of send() the probe starts.
PutRecv(p) ==
    /\ pc[p] = "put_wait"
    /\ \E resp \in PolicyResponses :
         IF resp.kind = "send_error"
         THEN /\ Fail(p, "INVALID_ARGUMENT")
              /\ UNCHANGED <<engine_policy, installed>>
         ELSE /\ engine_policy' = IF resp.status = 200 THEN op[p].policy
                                  ELSE engine_policy
              /\ installed' = IF resp.status = 200
                              THEN installed \cup {op[p].policy}
                              ELSE installed
              /\ pc' = [pc EXCEPT ![p] = "post_query"]
              /\ cur' = [cur EXCEPT !.stage = "probe"]
    /\ UNCHANGED <<op, lock, enforcer, audit_log, engine_spawned, env, tools,
                   init_called, init_result, calls, swap, concurrent>>

(***************************************************************************)
(* AgentPolicy::initialize.  It takes &mut self of the object kept in the  *)
(* AGENT_POLICY mutex, so it runs with the lock held.                      *)
(***************************************************************************)
OpaAddr == "localhost:8181"
PolicyName == "/agent_policy"
OpaUri == "http://" \o OpaAddr \o "/v1"

\* Where the part of initialize before the retry loop can fail: opening the
\* log file, start_opa finding no binary, start_opa failing to spawn the
\* binary it found, building the client, reading the default policy file.
InitFailures == {"none", "open", "start_opa", "spawn", "client", "read"}

BinaryNotFound ==
    "OPA binary not found in [\"/bin\", \"/usr/bin\", \"/usr/local/bin\"]"
PolicyFileUnreadable == "read_to_string: No such file or directory (os error 2)"

\* The error initialize returns for each of them.
InitError(fail) ==
    IF fail = "open" THEN "open: Permission denied (os error 13)"
    ELSE IF fail = "start_opa" THEN BinaryNotFound
    ELSE IF fail = "spawn" THEN "spawn: Permission denied (os error 13)"
    ELSE IF fail = "client" THEN "builder error"
    ELSE PolicyFileUnreadable

\* Everything before the loop, and the first PUT being sent.
Initialize(p) ==
    /\ pc[p] = "initialize"
    /\ \E debug \in BOOLEAN, fail \in InitFailures :
         /\ fail = "open" => debug
         /\ fail \in {"start_opa", "spawn"} => op[p].launch_opa
         /\ IF fail = "open"
            THEN /\ Bail(p, InitError(fail))
                 /\ UNCHANGED <<log_file, audit_log, engine_spawned,
                                query_path, policy_path>>
            ELSE /\ log_file' = (debug \/ log_file)
                 /\ audit_log' = IF debug THEN <<>> ELSE audit_log
                 /\ IF fail \in {"start_opa", "spawn"}
                    THEN /\ Bail(p, InitError(fail))
                         /\ UNCHANGED <<engine_spawned, query_path, policy_path>>
                    ELSE /\ engine_spawned' = (op[p].launch_opa \/ engine_spawned)
                         /\ query_path' = OpaUri \o OPA_DATA_PATH \o PolicyName \o "/"
                         /\ policy_path' = OpaUri \o OPA_POLICIES_PATH \o PolicyName
                         /\ IF fail \in {"client", "read"}
                            THEN Bail(p, InitError(fail))
                            ELSE /\ pc' = [pc EXCEPT ![p] = "init_put_wait"]
                                 /\ cur' = [cur EXCEPT !.i = 0, !.puts = 1,
                                                !.trace = Append(@, "PUT")]
    /\ UNCHANGED <<op, lock, allow_failures, opa_client, engine_policy, env, tools,
                   init_called, init_result, calls, installed, swap, concurrent>>

\* Outcome of one PUT of the loop: is_ok() of send() ends the loop and
\* starts the probe; otherwise the next attempt, or the bail after the last.
InitPutRecv(p) ==
    /\ pc[p] = "init_put_wait"
    /\ \E resp \in PolicyResponses :
         IF resp.kind = "http"
         THEN /\ opa_client' = TRUE
              /\ engine_policy' = IF resp.status = 200 THEN op[p].policy
                                  ELSE engine_policy
              /\ installed' = IF resp.status = 200
                              THEN installed \cup {op[p].policy}
                              ELSE installed
              /\ pc' = [pc EXCEPT ![p] = "post_query"]
              /\ cur' = [cur EXCEPT !.stage = "probe"]
         ELSE /\ IF cur.i + 1 < InitAttempts
                 THEN /\ pc' = [pc EXCEPT ![p] = "init_sleep"]
                      /\ cur' = [cur EXCEPT !.i = @ + 1]
                 ELSE Bail(p, "Failed to connect to OPA")
              /\ UNCHANGED <<opa_client, engine_policy, installed>>
    /\ UNCHANGED <<op, lock, allow_failures, query_path, policy_path, log_file,
                   audit_log, engine_spawned, env, tools, init_called, init_result, calls, swap, concurrent>>

\* A retry that sends its PUT without sleeping first.
InitSleepSkipped(p) ==
    /\ pc[p] = "init_sleep"
    /\ pc' = [pc EXCEPT ![p] = "init_put_wait"]
    /\ cur' = [cur EXCEPT !.puts = @ + 1]
    /\ UNCHANGED <<op, lock, enforcer, audit_log, engine_policy, engine_spawned,
                   env, tools, init_called, init_result, calls, installed, swap, concurrent>>

\* sleep(100 ms) before every attempt but the first, then the PUT is sent.
InitSleep(p) ==
    /\ pc[p] = "init_sleep"
    /\ cur.i > 0
    /\ pc' = [pc EXCEPT ![p] = "init_put_wait"]
    /\ cur' = [cur EXCEPT !.sleeps = @ + 1, !.puts = @ + 1]
    /\ UNCHANGED <<op, lock, enforcer, audit_log, engine_policy, engine_spawned,
                   env, tools, init_called, init_result, calls, installed, swap, concurrent>>

(***************************************************************************)
(* get_string_value: AgentPolicy::get_data is one round trip to the engine *)
(* made with the lock held.                                                *)
(***************************************************************************)
GetData(p) ==
    /\ pc[p] = "get_data"
    /\ IF opa_client
       THEN /\ pc' = [pc EXCEPT ![p] = "get_data_wait"]
            /\ cur' = [cur EXCEPT !.trace = Append(@, "GET")]
       ELSE Fail(p, "Err")
    /\ UNCHANGED <<op, lock, enforcer, audit_log, engine_policy, engine_spawned,
                   env, tools, init_called, init_result, calls, installed, swap, concurrent>>

GetDataRecv(p) ==
    /\ pc[p] = "get_data_wait"
    /\ \E resp \in PolicyResponses :
         Fail(p, IF resp.kind = "http" /\ resp.status = 200 THEN "Ok" ELSE "Err")
    /\ UNCHANGED <<op, lock, enforcer, audit_log, engine_policy, engine_spawned,
                   env, tools, init_called, init_result, calls, installed, swap, concurrent>>

(***************************************************************************)
(* The entry point returns: its MutexGuard is dropped.                     *)
(***************************************************************************)
Return(p) ==
    /\ pc[p] = "return"
    /\ lock' = NoProc
    /\ pc' = [pc EXCEPT ![p] = "idle"]
    /\ op' = [op EXCEPT ![p] = NoOp]
    /\ cur' = CurInit
    /\ concurrent' = concurrent \ {p}
    /\ init_result' = IF op[p].kind = "initialize" THEN cur.result
                      ELSE init_result
    /\ UNCHANGED <<enforcer, audit_log, engine_policy, engine_spawned, env, tools,
                   init_called, calls, installed, swap>>

Next ==
    \E p \in Procs :
        \/ Call(p)
        \/ is_allowed(p)
        \/ is_allowed_copy_file(p)
        \/ do_set_policy(p)
        \/ get_string_value(p)
        \/ initialize(p)
        \/ LogOpaInput(p)
        \/ PostQuerySend(p)
        \/ PostQueryRecv(p)
        \/ SetPolicy(p)
        \/ DeleteRecv(p)
        \/ PutRecv(p)
        \/ Initialize(p)
        \/ InitPutRecv(p)
        \/ InitSleep(p)
        \/ GetData(p)
        \/ GetDataRecv(p)
        \/ Return(p)

Spec == Init /\ [][Next]_vars

(***************************************************************************)
(* Scheduling.  The engine answers or fails every HTTP call in flight; the *)
(* runtime keeps polling a task that can go on; the tokio Mutex is fair:   *)
(* a task that waits in lock() gets the mutex when it is free again and    *)
(* again.  Nothing makes a caller call.                                    *)
(***************************************************************************)
EngineAnswers(p) ==
    \/ PostQueryRecv(p)
    \/ DeleteRecv(p)
    \/ PutRecv(p)
    \/ InitPutRecv(p)
    \/ GetDataRecv(p)

TaskRuns(p) ==
    \/ LogOpaInput(p)
    \/ PostQuerySend(p)
    \/ SetPolicy(p)
    \/ Initialize(p)
    \/ InitSleep(p)
    \/ GetData(p)
    \/ Return(p)

LockGranted(p) ==
    \/ is_allowed(p)
    \/ is_allowed_copy_file(p)
    \/ do_set_policy(p)
    \/ get_string_value(p)
    \/ initialize(p)

Fairness ==
    \A p \in Procs :
        /\ WF_vars(EngineAnswers(p))
        /\ WF_vars(TaskRuns(p))
        /\ SF_vars(LockGranted(p))

FairSpec == Spec /\ Fairness

InFlight(p) ==
    pc[p] \in {"post_wait", "delete_wait", "put_wait", "init_put_wait",
               "get_data_wait"}

\* The caller is inside the part of its entry point that uses the enforcer.
InEnforcer(p) == pc[p] \notin {"idle", "lock"}

TypeOK ==
    /\ lock \in Procs \cup {NoProc}
    /\ allow_failures \in BOOLEAN
    /\ calls \in 0..MaxCalls
    /\ engine_policy \in PolicyTexts \cup {NoPolicy}

(***************************************************************************)
(* Properties.                                                             *)
(***************************************************************************)
Holder(p) == lock = p /\ InEnforcer(p)

\* The gate of p's request has been decided.
GateDecided(p) ==
    /\ Holder(p)
    /\ op[p].kind \in Gated
    /\ cur.stage = "gate"
    /\ cur.ret.done

\* The engine answered 200 with a body that was read.
Answered200(resp) == resp.kind = "http" /\ resp.status = 200 /\ resp.text_ok

EngineReturnedTrue(resp) == Answered200(resp) /\ resp.text = BodyTrue

\* The engine call failed: no response, or a status other than 200.
EngineCallFailed(resp) ==
    resp.kind = "send_error" \/ (resp.kind = "http" /\ resp.status # 200)

Elems(seq) == {seq[k] : k \in 1..Len(seq)}

IsPrefix(a, b) == Len(a) <= Len(b) /\ \A k \in 1..Len(a) : a[k] = b[k]

\* C1: every policy text a PUT of the enforcer installed in the engine (the
\* default policy of initialize, or a replacement of set_policy) has a
\* SHA-256 digest equal to the report's host_data.
C1_TamperDetection == \A text \in installed : Sha256(text) = host_data

\* C2: with allow_failures false, a gated request is allowed only if the
\* engine answered 200 with the body {"result":true}; every other outcome
\* (transport error, non-200, unreadable or unparseable body, false, no
\* client) ends the request with PERMISSION_DENIED.
C2_FailClosedGate ==
    \A p \in Procs :
        (GateDecided(p) /\ ~cur.af0) =>
            /\ cur.allowed = EngineReturnedTrue(cur.resp)
            /\ ~cur.allowed =>
                   (pc[p] = "return" /\ cur.result = "PERMISSION_DENIED")

C2_Witness ==
    \E p \in Procs :
        /\ GateDecided(p) /\ ~cur.af0
        /\ Answered200(cur.resp) /\ cur.resp.text = BodyUndefined
        /\ cur.result = "PERMISSION_DENIED"

\* C3: the gate allows a request if and only if the engine returned true, or
\* the engine failed (it gave no true answer: a failed call, or a deny or
\* undefined decision) and allow_failures is set.
C3_GateIffEngineTrueOrFailOpen ==
    \A p \in Procs :
        GateDecided(p) =>
            (cur.allowed <=>
                \/ EngineReturnedTrue(cur.resp)
                \/ (~EngineReturnedTrue(cur.resp) /\ cur.af0))

\* C4: when the engine call of a gated request fails (transport failure or
\* a non-200 status), the request is allowed if allow_failures is true and
\* denied if it is false.
C4_FailureOpenOnEngineError ==
    \A p \in Procs :
        (GateDecided(p) /\ EngineCallFailed(cur.resp)) =>
            (cur.allowed <=> cur.af0)

\* C5: for a 200 response whose body was read, post_query returns
\* Ok(result is true \/ allow_failures): the parsed boolean, a false or an
\* unparseable body being overridden to true exactly when allow_failures is
\* set.
C5_Decision200 ==
    \A p \in Procs :
        (Holder(p) /\ cur.ret.done /\ Answered200(cur.resp)) =>
            /\ cur.ret.ok
            /\ cur.ret.val = ((cur.resp.text = BodyTrue) \/ cur.af0)

C5_Witness ==
    \E p \in Procs :
        /\ Holder(p) /\ cur.ret.done /\ Answered200(cur.resp)
        /\ cur.stage = "gate"
        /\ cur.resp.text = BodyFalse /\ cur.af0
        /\ cur.ret = OkBool(TRUE)

\* C6: in do_set_policy the SetPolicyRequest query is answered from the
\* policy active before the call and precedes the hash check, the DELETE, the
\* PUT and the probe; when the gate denies, the call returns
\* PERMISSION_DENIED having issued none of them, with the engine policy and
\* allow_failures as they were.
C6_SetPolicyGatedByCurrentPolicy ==
    \A p \in Procs :
        (Holder(p) /\ op[p].kind = "do_set_policy") =>
            /\ IsPrefix(cur.trace,
                        <<"log", "gate", "hash", "DELETE", "PUT", "probe">>)
            /\ (cur.stage = "gate" /\ cur.ret.done /\ Answered200(cur.resp)) =>
                   cur.resp.text = EngineBody(cur.old_policy, "SetPolicyRequest",
                                              Input(op[p].request))
            /\ (cur.stage = "gate" /\ cur.ret.done /\ ~cur.allowed) =>
                   /\ pc[p] = "return"
                   /\ cur.result = "PERMISSION_DENIED"
                   /\ Elems(cur.trace) \subseteq {"log", "gate"}
                   /\ engine_policy = cur.old_policy
                   /\ allow_failures = cur.old_af

C6_Witness ==
    \E p \in Procs :
        /\ Holder(p) /\ op[p].kind = "do_set_policy"
        /\ pc[p] = "return"
        /\ cur.resp.text = BodyFalse /\ ~cur.allowed
        /\ cur.result = "PERMISSION_DENIED"
        /\ engine_policy # NoPolicy
        /\ Sha256(op[p].policy) = host_data

\* C7: when the digest of the new policy differs from host_data, a
\* do_set_policy that passed its gate fails with INVALID_ARGUMENT, sends no
\* DELETE and no PUT, and leaves the engine policy and allow_failures as they
\* were.
C7_MismatchKeepsPreviousPolicy ==
    \A p \in Procs :
        (/\ Holder(p) /\ op[p].kind = "do_set_policy"
         /\ cur.ret.done /\ cur.allowed
         /\ Sha256(op[p].policy) # host_data) =>
            /\ pc[p] \in {"set_policy", "return"}
            /\ pc[p] = "return" => cur.result = "INVALID_ARGUMENT"
            /\ Elems(cur.trace) \cap {"DELETE", "PUT", "probe"} = {}
            /\ engine_policy = cur.old_policy
            /\ allow_failures = cur.old_af

C7_Witness ==
    \E p \in Procs :
        /\ Holder(p) /\ op[p].kind = "do_set_policy"
        /\ pc[p] = "return" /\ cur.allowed
        /\ host_data = ZeroHostData
        /\ cur.result = "INVALID_ARGUMENT"
        /\ engine_policy \in PolicyTexts

\* C8: when do_set_policy returns, the engine holds the new policy if it
\* returned Ok and the previous policy if it returned an error.
C8_AtomicSwap ==
    \A p \in Procs :
        (Holder(p) /\ op[p].kind = "do_set_policy" /\ pc[p] = "return") =>
            /\ cur.result = "Ok" => engine_policy = op[p].policy
            /\ cur.result # "Ok" => engine_policy = cur.old_policy

\* Caller q is between the DELETE of its replacement and the update of
\* allow_failures.
InSwapWindow(q) ==
    /\ op[q].kind = "do_set_policy"
    /\ \/ pc[q] \in {"delete_wait", "put_wait"}
       \/ pc[q] \in {"post_query", "post_wait"} /\ cur.stage = "probe"

\* C9: the query of a request that ran concurrently with a do_set_policy
\* call is evaluated against the old policy with the old allow_failures or
\* against the new policy with the new allow_failures, and never while
\* another caller is between its DELETE and its update of allow_failures.
C9_NoTornState ==
    \A p \in Procs :
        (/\ pc[p] = "post_wait"
         /\ op[p].kind \in {"is_allowed", "is_allowed_copy_file"}
         /\ p \in concurrent) =>
            /\ \A q \in Procs \ {p} : ~InSwapWindow(q)
            /\ <<engine_policy, allow_failures>> \in swap.ok

\* C10: a caller is past lock() only while it holds AGENT_POLICY, from the
\* first use of the enforcer to its return, so at most one caller is past
\* lock() and at most one engine call is in flight.
C10_MutualExclusion ==
    /\ \A p \in Procs : InEnforcer(p) => lock = p
    /\ \A p, q \in Procs : (InFlight(p) /\ InFlight(q)) => p = q
    /\ \A p \in Procs : (lock = p) => pc[p] # "idle"

C10_Witness ==
    \E p, q \in Procs :
        /\ InFlight(p)
        /\ op[p].kind = "do_set_policy" /\ pc[p] = "put_wait"
        /\ pc[q] = "lock"

\* The value the rule AllowRequestsFailingPolicy has in `text`, as a boolean
\* (an undefined rule counts as false).
FailuresAllowedBy(text) ==
    RuleValue(text, "AllowRequestsFailingPolicy", EMPTY_JSON_INPUT) = "true"

\* C11: after a do_set_policy that returned Ok and whose PUT installed the
\* new policy, allow_failures equals the value of AllowRequestsFailingPolicy
\* in the new policy (false when the rule is false or undefined), whatever
\* allow_failures was before the replacement.
C11_AllowFailuresRederived ==
    \A p \in Procs :
        (/\ Holder(p) /\ op[p].kind = "do_set_policy"
         /\ pc[p] = "return" /\ cur.result = "Ok"
         /\ engine_policy = op[p].policy) =>
            allow_failures = FailuresAllowedBy(op[p].policy)

\* Caller p is in initialize, which has returned `result`.
InitializeReturned(p, result) ==
    /\ Holder(p) /\ op[p].kind = "initialize"
    /\ pc[p] = "return" /\ cur.result = result

C13_InitializeRetry ==
    \A p \in Procs :
        (Holder(p) /\ op[p].kind = "initialize") =>
            /\ cur.puts <= 50
            /\ cur.i < 50
            /\ cur.puts > 0 => cur.sleeps = cur.puts - 1
            /\ pc[p] = "init_put_wait" => (~opa_client /\ cur.puts = cur.i + 1)
            /\ pc[p] = "init_sleep" => (~opa_client /\ cur.puts = cur.i)
            /\ opa_client => cur.stage = "probe"
            /\ (pc[p] = "return" /\ cur.message = "Failed to connect to OPA") =>
                   (cur.result = "Err" /\ cur.puts = 50 /\ ~opa_client)
            /\ (pc[p] = "return" /\ cur.puts = 50 /\ cur.stage # "probe") =>
                   (cur.result = "Err"
                    /\ cur.message = "Failed to connect to OPA")

C13_Witness ==
    \E p \in Procs :
        /\ InitializeReturned(p, "Err")
        /\ cur.message = "Failed to connect to OPA"
        /\ cur.puts = 50 /\ cur.sleeps = 49
        /\ ~opa_client

\* Lifecycle of the enforcer as its state shows it.
Uninitialized == ~init_called
Connecting == \E p \in Procs : Holder(p) /\ op[p].kind = "initialize" /\ ~opa_client
Ready == opa_client

\* The query of p's gated request went to the engine.
AnsweredFromEngine(p) == GateDecided(p) /\ cur.resp # NoResp

\* C14 as stated: a gated request is answered from the engine only when
\* initialize has returned successfully; in every other state it is denied
\* without the engine being asked.
C14_AnsweredOnlyAfterInitializeOk ==
    \A p \in Procs :
        (GateDecided(p) /\ init_result # "Ok") =>
            /\ ~AnsweredFromEngine(p)
            /\ ~cur.allowed /\ cur.result = "PERMISSION_DENIED"

\* C14, amended: the enforcer is Ready from the first successful PUT of
\* initialize on (opa_client set, and it stays set), whether or not the
\* probe that follows succeeds.  The query of a gated request is posted only
\* to a Ready enforcer; while the enforcer is not Ready (never initialized,
\* or initialize failed before any PUT succeeded) the request is denied
\* with PERMISSION_DENIED and nothing is sent to the engine.
C14_OnlyReadyAccepts ==
    /\ Ready => (init_called /\ ~Connecting)
    /\ Uninitialized => ~Ready
    /\ init_result = "Ok" => Ready
    /\ \A p \in Procs :
         /\ (op[p].kind \in Gated /\ pc[p] = "post_wait") => Ready
         /\ AnsweredFromEngine(p) => Ready
         /\ (GateDecided(p) /\ ~Ready) =>
                /\ cur.resp = NoResp
                /\ ~cur.allowed
                /\ pc[p] = "return" /\ cur.result = "PERMISSION_DENIED"

C14_Witness ==
    \E p \in Procs :
        /\ GateDecided(p) /\ ~Ready
        /\ init_result = "Err"
        /\ op[p].ep = "CreateContainerRequest"
        /\ cur.result = "PERMISSION_DENIED"

\* initialize returned one of the two configuration errors.
ConfigError(p) ==
    /\ InitializeReturned(p, "Err")
    /\ cur.message \in {BinaryNotFound, PolicyFileUnreadable}

\* C15: when initialize fails because the engine binary is in none of the
\* three directories or because the default policy file cannot be read,
\* log_file, query_path, policy_path, opa_client and allow_failures are as
\* they were before the call, the audit log has not been truncated and the
\* engine has not been spawned.
C15_ConfigErrorChangesNothing ==
    \A p \in Procs :
        ConfigError(p) =>
            /\ Snapshot(log_file, query_path, policy_path, opa_client,
                        audit_log, engine_spawned) = cur.old
            /\ allow_failures = cur.old_af

\* C17: the error of a denied request has the code PERMISSION_DENIED and the
\* message "<endpoint> is blocked by policy", a function of the endpoint
\* name alone: two denied requests to one endpoint get the same error
\* whatever their bodies are.
C17_DeniedErrorFromEndpointOnly ==
    \A p \in Procs :
        /\ (GateDecided(p) /\ ~cur.allowed) =>
              /\ cur.result = "PERMISSION_DENIED"
              /\ cur.message = op[p].ep \o " is blocked by policy"
        /\ (Holder(p) /\ cur.result = "PERMISSION_DENIED") =>
              (GateDecided(p) /\ ~cur.allowed)

C17_Witness ==
    \E p \in Procs :
        /\ GateDecided(p) /\ ~cur.allowed
        /\ op[p].kind = "is_allowed_copy_file"
        /\ op[p].request # ReqCopyFile
        /\ engine_policy = PolicyA.text
        /\ cur.message = "CopyFileRequest is blocked by policy"

\* C18: log_opa_input is the first step of every gated request, before
\* its query is posted.  With the audit log open, a request to an endpoint
\* other than StatsContainerRequest, ReadStreamRequest and SetPolicyRequest
\* makes one write: when it succeeds the log is the log the request found
\* followed by this request's entry, when it fails the log is unchanged; a
\* request to one of the three endpoints, or with the log closed, leaves the
\* log unchanged.  The decision is computed from the engine's response and
\* allow_failures alone, whether or not the write succeeded.
C18_AuditLog ==
    \A p \in Procs :
        (Holder(p) /\ op[p].kind \in Gated) =>
            LET ep == op[p].ep
                entry == "[\"ep\":\"" \o ep \o "\",{\"input\":" \o op[p].request
                         \o "}],\n\n"
                logs == /\ log_file
                        /\ ep \notin {"StatsContainerRequest",
                                      "ReadStreamRequest", "SetPolicyRequest"}
            IN
            /\ log_file = cur.old.log_file
            /\ pc[p] = "log_opa_input" =>
                   (cur.trace = <<>> /\ audit_log = cur.old.audit_log)
            /\ pc[p] # "log_opa_input" =>
                   /\ cur.trace[1] = "log"
                   /\ \A k \in 2..Len(cur.trace) : cur.trace[k] # "log"
                   /\ logs => cur.logged \in {"written", "failed"}
                   /\ ~logs => cur.logged = "skipped"
                   /\ cur.logged = "written" =>
                          audit_log = Append(cur.old.audit_log, entry)
                   /\ cur.logged # "written" =>
                          audit_log = cur.old.audit_log
            /\ GateDecided(p) =>
                   cur.allowed =
                       AllowRequestResult(PostQueryResult(cur.resp, cur.af0))

C18_Witness ==
    \E p \in Procs :
        /\ GateDecided(p)
        /\ op[p].ep = "CreateContainerRequest"
        /\ cur.logged = "written"
        /\ Len(audit_log) = 2
        /\ cur.allowed

(***************************************************************************)
(* Functions applied to arguments drawn from bounded sets: one application *)
(* per behaviour, outside the enforcer.                                    *)
(***************************************************************************)
MaxData == 2

RECURSIVE SeqsUpTo(_, _)
SeqsUpTo(S, n) ==
    IF n = 0 THEN {<<>>}
    ELSE LET shorter == SeqsUpTo(S, n - 1) IN
         shorter \cup {Append(q, x) : q \in shorter, x \in S}

\* file_mode: a regular file, a symbolic link, a socket, a directory, a
\* character device, and all bits of S_IFMT.
AllCopyFileRequests ==
    [path : {<<47, 116>>}, file_size : {0, 11},
     file_mode : {33188, S_IFLNK + 511, 49152 + 420, 16877, 8192 + 420, 61440},
     dir_mode : {493}, uid : {0, 1000}, gid : {0}, offset : {0},
     data : SeqsUpTo(Bytes, MaxData)]

(***************************************************************************)
(* genpolicy, registry.rs: Container::get_process.  Option<T> is None or   *)
(* Some(v); a String that is parsed is kept as its sequence of characters. *)
(***************************************************************************)
MaxArgv == 2

None == [some |-> FALSE]
Some(v) == [some |-> TRUE, val |-> v]
Option(S) == {None} \cup {Some(v) : v \in S}

Digits == <<"0", "1", "2", "3", "4", "5", "6", "7", "8", "9">>
IsDigit(c) == \E d \in 1..10 : Digits[d] = c
DigitValue(c) == (CHOOSE d \in 1..10 : Digits[d] = c) - 1

\* A u32 is kept as its two 16-bit halves: the value is hi * 65536 + lo.
U32(n) == [hi |-> n \div 65536, lo |-> n % 65536]

\* The digits read so far as a u32, with checked_mul(10) and checked_add of
\* each digit: overflow is an error.
RECURSIVE DecimalValue(_, _)
DecimalValue(chars, acc) ==
    IF chars = <<>> THEN [ok |-> TRUE, val |-> acc]
    ELSE LET lo == acc.lo * 10 + DigitValue(Head(chars))
             hi == acc.hi * 10 + lo \div 65536 IN
         IF hi >= 65536 THEN [ok |-> FALSE, val |-> U32(0)]
         ELSE DecimalValue(Tail(chars), [hi |-> hi, lo |-> lo % 65536])

\* str::parse::<u32>(): an optional '+', then one or more decimal digits,
\* with a value below 2^32.
ParseU32(chars) ==
    LET digits == IF chars # <<>> /\ Head(chars) = "+" THEN Tail(chars)
                  ELSE chars IN
    IF digits = <<>> \/ \E k \in 1..Len(digits) : ~IsDigit(digits[k])
    THEN [ok |-> FALSE, val |-> U32(0)]
    ELSE DecimalValue(digits, U32(0))

\* str::split(sep).collect(): the pieces between the separators.
RECURSIVE Split(_, _, _)
Split(chars, sep, piece) ==
    IF chars = <<>> THEN <<piece>>
    ELSE IF Head(chars) = sep THEN <<piece>> \o Split(Tail(chars), sep, <<>>)
    ELSE Split(Tail(chars), sep, Append(piece, Head(chars)))

\* Vec::reverse
RECURSIVE Reverse(_)
Reverse(q) == IF q = <<>> THEN <<>> ELSE Append(Reverse(Tail(q)), Head(q))

\* An entrypoint that is not reversed before it is inserted.
EntryPointsNotReversed(entry_points) == entry_points

\* reversed_entry_points
ReversedEntryPoints(entry_points) == Reverse(entry_points)

\* for entry_point in reversed_entry_points { policy_args.insert(0, ..) }
RECURSIVE InsertEachAtFront(_, _)
InsertEachAtFront(entry_points, policy_args) ==
    IF entry_points = <<>> THEN policy_args
    ELSE InsertEachAtFront(Tail(entry_points),
                           <<Head(entry_points)>> \o policy_args)

\* An image Cmd that is ignored only when the YAML has a command.
IgnoreImageCmdForCommandOnly(yaml_has_command, yaml_has_args) ==
    yaml_has_command

\* The two branches that ignore the image Cmd.
IgnoreImageCmd(yaml_has_command, yaml_has_args) ==
    yaml_has_command \/ yaml_has_args

\* A uid that fails to parse leaves process.User.UID as it was.
GetProcessUserUidKept(User, image_user) ==
    IF ~image_user.some \/ image_user.val = <<>>
    THEN [panicked |-> FALSE, User |-> User]
    ELSE LET user == Split(image_user.val, ":", <<>>)
             uid == ParseU32(user[1])
             withUid == [User EXCEPT !.UID = IF uid.ok THEN uid.val ELSE @] IN
         IF Len(user) > 1
         THEN LET gid == ParseU32(user[2]) IN
              IF gid.ok
              THEN [panicked |-> FALSE, User |-> [withUid EXCEPT !.GID = gid.val]]
              ELSE [panicked |-> TRUE, User |-> withUid]
         ELSE [panicked |-> FALSE, User |-> withUid]

\* The part of get_process that updates process.User; the unwrap() of the
\* gid's parse panics.
GetProcessUser(User, image_user) ==
    IF ~image_user.some \/ image_user.val = <<>>
    THEN [panicked |-> FALSE, User |-> User]
    ELSE LET user == Split(image_user.val, ":", <<>>)
             uid == ParseU32(user[1])
             withUid == [User EXCEPT !.UID = IF uid.ok THEN uid.val ELSE U32(0)] IN
         IF Len(user) > 1
         THEN LET gid == ParseU32(user[2]) IN
              IF gid.ok
              THEN [panicked |-> FALSE, User |-> [withUid EXCEPT !.GID = gid.val]]
              ELSE [panicked |-> TRUE, User |-> withUid]
         ELSE [panicked |-> FALSE, User |-> withUid]

\* The part of get_process that updates process.Args.
GetProcessArgs(Args, docker_config, yaml_has_command, yaml_has_args) ==
    LET withEntrypoint ==
            IF docker_config.Entrypoint.some /\ ~yaml_has_command
            THEN InsertEachAtFront(
                     ReversedEntryPoints(docker_config.Entrypoint.val), Args)
            ELSE Args IN
    IF IgnoreImageCmd(yaml_has_command, yaml_has_args) THEN withEntrypoint
    ELSE IF docker_config.Cmd.some THEN withEntrypoint \o docker_config.Cmd.val
    ELSE withEntrypoint

\* Container::get_process: the process it leaves, or the panic.
GetProcess(docker_config, process, yaml_has_command, yaml_has_args) ==
    LET user == GetProcessUser(process.User, docker_config.User) IN
    IF user.panicked
    THEN [panicked |-> TRUE, process |-> [process EXCEPT !.User = user.User]]
    ELSE [panicked |-> FALSE,
          process |->
            [User |-> user.User,
             Terminal |-> IF docker_config.Tty.some THEN docker_config.Tty.val
                          ELSE FALSE,
             Env |-> process.Env \o docker_config.Env,
             Args |-> GetProcessArgs(process.Args, docker_config,
                                     yaml_has_command, yaml_has_args),
             Cwd |-> IF docker_config.WorkingDir.some
                        /\ docker_config.WorkingDir.val # ""
                     THEN docker_config.WorkingDir.val
                     ELSE process.Cwd]]

\* Image users: "", "10", "no", "10:20", "10:x", ":5", "1:2:3", "+7",
\* "4294967295", "4294967296".
ImageUsers ==
    {<<>>, <<"1", "0">>, <<"n", "o">>, <<"1", "0", ":", "2", "0">>,
     <<"1", "0", ":", "x">>, <<":", "5">>, <<"1", ":", "2", ":", "3">>,
     <<"+", "7">>, <<"4", "2", "9", "4", "9", "6", "7", "2", "9", "5">>,
     <<"4", "2", "9", "4", "9", "6", "7", "2", "9", "6">>}

DockerImageConfigs ==
    [User : Option(ImageUsers),
     Tty : {None, Some(TRUE)},
     Env : {<<"PATH=/bin">>},
     Cmd : Option(SeqsUpTo({"--flag", "-v"}, MaxArgv)),
     WorkingDir : {None, Some(""), Some("/app")},
     Entrypoint : Option(SeqsUpTo({"/bin/app", "-c"}, MaxArgv))]

\* The process get_process is given: what the YAML set.
KataProcesses ==
    [User : {[UID |-> U32(65534), GID |-> U32(65534)]}, Terminal : {TRUE},
     Env : {<<"A=1">>}, Args : SeqsUpTo({"run"}, MaxArgv), Cwd : {"/"}]

(***************************************************************************)
(* cc-policy: main and create_and_inject_policy.  A YAML file is the       *)
(* sequence of its documents; a document has a kind and a name, is         *)
(* resolved or not, and has a policy annotation or none.  What kubectl,    *)
(* PodYaml and CcPolicy do is given with the call: whether the dry run     *)
(* succeeds, and whether a policy can be generated.                        *)
(***************************************************************************)
MaxDocs == 2

OkVal(v) == [ok |-> TRUE, val |-> v]
ErrVal(message) == [ok |-> FALSE, message |-> message]

Malformed ==
    [kind |-> "malformed", name |-> "", resolved |-> FALSE, annotation |-> None]
YamlDocs ==
    {[kind |-> "Pod", name |-> "a", resolved |-> FALSE, annotation |-> None],
     [kind |-> "Deployment", name |-> "b", resolved |-> FALSE, annotation |-> None],
     Malformed}

\* The document with its templated fields resolved by the cluster.
ResolvedDoc(doc) == [doc EXCEPT !.resolved = TRUE]

\* KubeCtl::get_yaml_with_dry_run_server(path): what kubectl apply
\* --dry-run=server -o yaml prints for the file, one value: the resolved
\* document of a file of one document, a List of the resolved documents
\* otherwise.
GetYamlWithDryRunServer(docs, dry_run_ok) ==
    IF ~dry_run_ok THEN ErrVal("kubectl failed")
    ELSE IF Len(docs) = 1 THEN OkVal(ResolvedDoc(docs[1]))
    ELSE OkVal([kind |-> "List", name |-> "", resolved |-> TRUE,
                annotation |-> None,
                items |-> [i \in DOMAIN docs |-> ResolvedDoc(docs[i])]])

\* policy.to_string() and policy.to_base64() of the policy of a document.
PolicyText(yaml) == <<"policy", yaml>>
PolicyBase64(yaml) == <<"base64", PolicyText(yaml)>>

\* get_policy_from_yaml: the kind, the policy and its encoding, or the
\* error of PodYaml::from or CcPolicy::from_pod_yaml.
GetPolicyFromYaml(yaml, generates) ==
    IF generates
    THEN OkVal([kind |-> yaml.kind, policy |-> PolicyText(yaml),
                policy_base64 |-> PolicyBase64(yaml)])
    ELSE ErrVal("policy generation failed")

\* patch_yaml: the annotation is put on the metadata of a Pod and on the
\* metadata of the pod template of another kind.
PatchYaml(yaml, kind, policy_base64) ==
    [yaml EXCEPT !.annotation =
        Some([on |-> IF kind = "Pod" THEN "metadata"
                     ELSE "spec.template.metadata",
              policy |-> policy_base64])]

\* The value get_policy_from_yaml is called with in the loop.
PolicySource(yaml, yaml_from_dry_run) == yaml_from_dry_run

\* The loop of create_and_inject_policy over the documents of the file.
RECURSIVE InjectEach(_, _, _, _)
InjectEach(docs, yaml_from_dry_run, generates, acc) ==
    IF docs = <<>> THEN OkVal(acc)
    ELSE LET yaml == Head(docs) IN
         IF yaml.kind = "malformed" THEN ErrVal("invalid YAML document")
         ELSE LET generated ==
                      GetPolicyFromYaml(PolicySource(yaml, yaml_from_dry_run),
                                        generates) IN
              IF generated.ok
              THEN InjectEach(Tail(docs), yaml_from_dry_run, generates,
                     [buffer |-> Append(acc.buffer,
                                   PatchYaml(yaml, generated.val.kind,
                                             generated.val.policy_base64)),
                      policy_list |-> Append(acc.policy_list,
                                             generated.val.policy),
                      policy_base64_list |->
                          Append(acc.policy_base64_list,
                                 generated.val.policy_base64)])
              ELSE InjectEach(Tail(docs), yaml_from_dry_run, generates,
                     [acc EXCEPT !.buffer = Append(@, yaml)])

\* Vec::join("\n")
RECURSIVE Join(_, _)
Join(list, sep) ==
    IF list = <<>> THEN <<>>
    ELSE IF Len(list) = 1 THEN list
    ELSE <<Head(list), sep>> \o Join(Tail(list), sep)

\* create_and_inject_policy: the policies, their encodings and the YAML
\* with the policies, or the error.
CreateAndInjectPolicy(file, dry_run_ok, generates) ==
    IF ~file.readable THEN ErrVal("cannot read the input file")
    ELSE LET dry_run == GetYamlWithDryRunServer(file.docs, dry_run_ok) IN
         IF ~dry_run.ok THEN dry_run
         ELSE LET each == InjectEach(file.docs, dry_run.val, generates,
                                     [buffer |-> <<>>, policy_list |-> <<>>,
                                      policy_base64_list |-> <<>>]) IN
              IF ~each.ok THEN each
              ELSE OkVal([policy |-> Join(each.val.policy_list, "\n"),
                          policy_base64 |->
                              Join(each.val.policy_base64_list, "\n"),
                          yaml_with_policy |-> each.val.buffer])

\* create_policy_by_image_ref
CreatePolicyByImageRef(image_ref, image_ok) ==
    IF image_ok
    THEN OkVal([policy |-> <<PolicyText(image_ref)>>,
                policy_base64 |-> <<PolicyBase64(image_ref)>>,
                yaml_with_policy |-> <<>>])
    ELSE ErrVal("policy generation failed")

\* The end of a run: exit code, message, the files written and what was
\* printed.
Exit(code, message, files, stdout) ==
    [exit_code |-> code, message |-> message, files |-> files,
     stdout |-> stdout]

\* main, given the command line and what the run meets.
Main(args, file, dry_run_ok, generates, image_ok) ==
    IF ~args.input_yaml.some /\ ~args.image_ref.some
    THEN Exit(1, "Please specify either input_yaml or image_ref", {}, <<>>)
    ELSE IF args.input_yaml.some /\ args.image_ref.some
    THEN Exit(1, "Cannot specify input_yaml and image_ref at the same time",
              {}, <<>>)
    ELSE LET made == IF args.input_yaml.some
                     THEN CreateAndInjectPolicy(file, dry_run_ok, generates)
                     ELSE CreatePolicyByImageRef(args.image_ref.val, image_ok) IN
         IF ~made.ok THEN Exit(1, made.message, {}, <<>>)
         ELSE LET stdout == IF args.verbose
                            THEN <<<<"CcPolicy: ", made.val.policy>>,
                                   <<"Base64 encoding: ", made.val.policy_base64>>>>
                            ELSE <<>>
                  policy_file ==
                      IF args.output_policy.some
                      THEN {[path |-> args.output_policy.val,
                             data |-> made.val.policy]}
                      ELSE {}
                  yaml_file ==
                      IF args.output_yaml.some
                      THEN {[path |-> args.output_yaml.val,
                             data |-> made.val.yaml_with_policy]}
                      ELSE {}
                  created ==
                      (IF args.output_policy.some
                       THEN <<<<args.output_policy.val, " created.">>>>
                       ELSE <<>>)
                      \o (IF args.output_yaml.some
                          THEN <<<<args.output_yaml.val, " created.">>>>
                          ELSE <<>>) IN
              Exit(0, "", policy_file \cup yaml_file, stdout \o created)

YamlFiles == [readable : BOOLEAN, docs : SeqsUpTo(YamlDocs, MaxDocs)]

MainCalls ==
    [args : [input_yaml : Option({"in.yaml"}), image_ref : Option({"image"}),
             output_yaml : Option({"out.yaml"}),
             output_policy : Option({"policy.rego"}),
             verbose : BOOLEAN],
     file : YamlFiles, dry_run_ok : BOOLEAN, generates : BOOLEAN,
     image_ok : BOOLEAN]

CreateAndInjectPolicyCalls ==
    [file : YamlFiles, dry_run_ok : BOOLEAN, generates : BOOLEAN]

GetProcessCalls ==
    [docker_config : DockerImageConfigs, process : KataProcesses,
     yaml_has_command : BOOLEAN, yaml_has_args : BOOLEAN]

FnInit ==
    /\ AgentInit
    /\ host_data = ZeroHostData
    /\ default_policy = PolicyA.text
    /\ \/ fn = "is_allowed_copy_file" /\ fn_args \in AllCopyFileRequests
       \/ fn = "get_process" /\ fn_args \in GetProcessCalls
       \/ fn = "create_and_inject_policy"
          /\ fn_args \in CreateAndInjectPolicyCalls
       \/ fn = "main" /\ fn_args \in MainCalls
    /\ fn_out = NoOutput
    /\ GeneratorIdle

Applied(f) == fn = f /\ fn_out # NoOutput

\* is_allowed_copy_file builds the arguments of its allow_request.
BuildCopyFileEnvelope ==
    /\ fn = "is_allowed_copy_file"
    /\ fn_out = NoOutput
    /\ fn_out' = CopyFileEnvelope(fn_args)
    /\ UNCHANGED <<agent, fn, fn_args, generator>>

get_process ==
    /\ fn = "get_process"
    /\ fn_out = NoOutput
    /\ fn_out' = GetProcess(fn_args.docker_config, fn_args.process,
                            fn_args.yaml_has_command, fn_args.yaml_has_args)
    /\ UNCHANGED <<agent, fn, fn_args, generator>>

create_and_inject_policy ==
    /\ fn = "create_and_inject_policy"
    /\ fn_out = NoOutput
    /\ fn_out' = CreateAndInjectPolicy(fn_args.file, fn_args.dry_run_ok,
                                       fn_args.generates)
    /\ UNCHANGED <<agent, fn, fn_args, generator>>

main ==
    /\ fn = "main"
    /\ fn_out = NoOutput
    /\ fn_out' = Main(fn_args.args, fn_args.file, fn_args.dry_run_ok,
                      fn_args.generates, fn_args.image_ok)
    /\ UNCHANGED <<agent, fn, fn_args, generator>>

FnNext ==
    \/ BuildCopyFileEnvelope
    \/ get_process
    \/ create_and_inject_policy
    \/ main

FnSpec == FnInit /\ [][FnNext]_vars

\* The type bits of mode include both bits of S_IFLNK (0o120000).
HasSymlinkBits(mode) == (mode \div 4096) % 16 \in {10, 11, 14, 15}

\* C16: the envelope is_allowed_copy_file hands to the gate has the endpoint
\* name CopyFileRequest and exactly the fields path, file_size, file_mode,
\* dir_mode, uid, gid, offset, symlink_src (no data field); the first seven
\* carry the request's values; symlink_src is the request's data as a string
\* when file_mode has the S_IFLNK bits and the empty string otherwise; and
\* the text sent is that object.  The one request for which no envelope is
\* built is a symbolic link whose data is not valid UTF-8.
C16_CopyFileRewriting ==
    Applied("is_allowed_copy_file") =>
        LET req == fn_args
            symlink == HasSymlinkBits(req.file_mode) IN
        /\ fn_out.panicked <=> (symlink /\ ~Utf8Valid(req.data))
        /\ ~fn_out.panicked =>
             /\ fn_out.ep = "CopyFileRequest"
             /\ [k \in 1..Len(fn_out.fields) |-> fn_out.fields[k][1]] =
                  <<"path", "file_size", "file_mode", "dir_mode", "uid", "gid",
                    "offset", "symlink_src">>
             /\ fn_out.fields[1][2] = JsonString(req.path)
             /\ fn_out.fields[2][2] = ToString(req.file_size)
             /\ fn_out.fields[3][2] = ToString(req.file_mode)
             /\ fn_out.fields[4][2] = ToString(req.dir_mode)
             /\ fn_out.fields[5][2] = ToString(req.uid)
             /\ fn_out.fields[6][2] = ToString(req.gid)
             /\ fn_out.fields[7][2] = ToString(req.offset)
             /\ fn_out.fields[8][2] =
                  (IF symlink THEN JsonString(req.data) ELSE "\"\"")
             /\ fn_out.request = JsonObject(fn_out.fields)

C16_Witness ==
    /\ Applied("is_allowed_copy_file")
    /\ fn_args.file_mode = S_IFLNK + 511
    /\ fn_args.data = <<47, 34>>
    /\ ~fn_out.panicked
    /\ fn_out.fields[8] = <<"symlink_src", "\"/\\\"\"">>

\* The value of an Option<Vec<String>>, empty when it is None.
OrEmpty(o) == IF o.some THEN o.val ELSE <<>>

\* get_process returned; A, E, C are the argv it was given, the image
\* entrypoint and the image cmd.
GetProcessReturned == Applied("get_process") /\ ~fn_out.panicked

\* C19: the args get_process leaves are the image entrypoint (when the
\* manifest has no command), then the args it was given, then the image cmd
\* (when the manifest has neither command nor args), entrypoint and cmd in
\* their own order; with a manifest command the args are unchanged.
C19_ArgsMerge ==
    GetProcessReturned =>
        LET A == fn_args.process.Args
            E == OrEmpty(fn_args.docker_config.Entrypoint)
            C == OrEmpty(fn_args.docker_config.Cmd)
            has_command == fn_args.yaml_has_command
            has_args == fn_args.yaml_has_args IN
        /\ fn_out.process.Args =
              (IF ~has_command THEN E ELSE <<>>) \o A
              \o (IF ~has_command /\ ~has_args THEN C ELSE <<>>)
        /\ has_command => fn_out.process.Args = A

C19_Witness ==
    /\ GetProcessReturned
    /\ fn_args.docker_config.Entrypoint = Some(<<"/bin/app">>)
    /\ fn_args.docker_config.Cmd = Some(<<"--flag">>)
    /\ ~fn_args.yaml_has_command /\ ~fn_args.yaml_has_args
    /\ fn_args.process.Args = <<>>
    /\ fn_out.process.Args = <<"/bin/app", "--flag">>

\* C20 as stated: with manifest args and no manifest command, get_process
\* leaves the args it was given, ignoring image entrypoint and image cmd.
C20_ArgsOnlyIgnoresEntrypoint ==
    (GetProcessReturned /\ fn_args.yaml_has_args /\ ~fn_args.yaml_has_command) =>
        fn_out.process.Args = fn_args.process.Args

\* C20, amended: with manifest args and no manifest command, get_process
\* ignores the image cmd but not the image entrypoint: the args are the
\* image entrypoint followed by the args it was given.
C20_ArgsOnlyKeepsEntrypoint ==
    (GetProcessReturned /\ fn_args.yaml_has_args /\ ~fn_args.yaml_has_command) =>
        fn_out.process.Args =
            OrEmpty(fn_args.docker_config.Entrypoint) \o fn_args.process.Args

C20_Witness ==
    /\ GetProcessReturned
    /\ fn_args.yaml_has_args /\ ~fn_args.yaml_has_command
    /\ fn_args.docker_config.Entrypoint = Some(<<"/bin/app">>)
    /\ fn_args.docker_config.Cmd = Some(<<"--flag">>)
    /\ fn_args.process.Args = <<"run">>
    /\ fn_out.process.Args = <<"/bin/app", "run">>

\* The positions of the ':' characters of a user string.
Colons(chars) == {k \in 1..Len(chars) : chars[k] = ":"}

\* The user string up to its first ':' (the whole string without one).
UidText(chars) ==
    IF Colons(chars) = {} THEN chars
    ELSE LET c == CHOOSE k \in Colons(chars) : \A j \in Colons(chars) : k <= j IN
         SubSeq(chars, 1, c - 1)

\* The user string after its first ':' and up to its second one.
GidText(chars) ==
    LET c == CHOOSE k \in Colons(chars) : \A j \in Colons(chars) : k <= j
        rest == SubSeq(chars, c + 1, Len(chars)) IN
    UidText(rest)

\* C21: get_process splits the image user on ':'.  The first element is the
\* uid, and 0 when it is not a u32; without a second element the gid is
\* unchanged; a second element is the gid, and get_process fails (panics) when
\* it is not a u32; an absent or empty user leaves uid and gid unchanged.
C21_UserParsing ==
    Applied("get_process") =>
        LET image_user == fn_args.docker_config.User
            old == fn_args.process.User
            new == fn_out.process.User IN
        IF ~image_user.some \/ image_user.val = <<>>
        THEN ~fn_out.panicked /\ new = old
        ELSE LET uid == ParseU32(UidText(image_user.val)) IN
             /\ new.UID = (IF uid.ok THEN uid.val ELSE U32(0))
             /\ IF Colons(image_user.val) = {}
                THEN ~fn_out.panicked /\ new.GID = old.GID
                ELSE LET gid == ParseU32(GidText(image_user.val)) IN
                     IF gid.ok THEN ~fn_out.panicked /\ new.GID = gid.val
                     ELSE fn_out.panicked

\* The image user "no": uid 0, gid as it was.
C21_Witness ==
    /\ Applied("get_process")
    /\ fn_args.docker_config.User = Some(<<"n", "o">>)
    /\ ~fn_out.panicked
    /\ fn_out.process.User = [UID |-> U32(0), GID |-> U32(65534)]

\* The image user "10:x": the gid's parse failure is fatal.
C21_WitnessFatalGid ==
    /\ Applied("get_process")
    /\ fn_args.docker_config.User = Some(<<"1", "0", ":", "x">>)
    /\ fn_out.panicked

(***************************************************************************)
(* genpolicy: the layers of an image and the directory layers_cache.       *)
(* A file is a sequence of blocks of BlockLen bytes, half a verity block,  *)
(* and every offset is a multiple of BlockLen.  A layer's content in the   *)
(* content store is a gzip member: a header, deflated blocks and a trailer *)
(* that carries the length of the inflated data.                           *)
(***************************************************************************)
MaxLayers == 2
MaxRuns == 3

VerityBlockSize == 4096
BlockLen == VerityBlockSize \div 2

GzipLayerMediaType == "application/vnd.docker.image.rootfs.diff.tar.gzip"
MediaTypes == {GzipLayerMediaType, "application/vnd.oci.image.layer.v1.tar+gzip"}

\* The digest of the layer at position k of the manifest, as characters.
Digest(k) == <<"sha256", ":", ToString(k)>>
DiffId(k) == <<"sha256", ":", "diff", ToString(k)>>

\* manifest["layers"]
Manifests ==
    UNION {{[k \in 1..n |-> [mediaType |-> m[k], digest |-> Digest(k)]] :
                m \in [1..n -> MediaTypes]} : n \in 0..MaxLayers}

\* config_layer.rootfs.diff_ids
DiffIdLists == {[k \in 1..n |-> DiffId(k)] : n \in 0..(MaxLayers + 1)}

TarBlock(k, j) == [kind |-> "tar", layer |-> k, n |-> j]
GzHeader == [kind |-> "gzip header"]
Deflated(block) == [kind |-> "deflate", out |-> block]
GzTrailer(isize) == [kind |-> "gzip trailer", isize |-> isize]
ZeroBlock == [kind |-> "zero"]
Chunk(offset, data) == [offset |-> offset, data |-> data]

\* What the content store streams for the layer at position k: the chunks
\* of ReadContentResponse, each with an offset (i64) and data.
\*   "in order"  two tar blocks, chunks in the order of their offsets
\*   "reordered" the same content, the later chunk first
\*   "small"     a tar of no block
\*   "negative"  the second chunk has a negative offset
Contents == {"in order", "reordered", "small", "negative"}
Stream(content, k) ==
    LET first == Chunk(0, <<GzHeader, Deflated(TarBlock(k, 1))>>)
        second == Chunk(2 * BlockLen, <<Deflated(TarBlock(k, 2)),
                                        GzTrailer(2 * BlockLen)>>) IN
    CASE content = "in order" -> <<first, second>>
      [] content = "reordered" -> <<second, first>>
      [] content = "small" ->
            <<Chunk(0, <<GzHeader>>), Chunk(BlockLen, <<GzTrailer(0)>>)>>
      [] content = "negative" ->
            <<first, [second EXCEPT !.offset = 0 - BlockLen]>>

Images == [layers : Manifests, diff_ids : DiffIdLists, content : Contents]

\* str::replace(&layer_digest, ":", "-")
Replace(chars, from, to) ==
    [i \in DOMAIN chars |-> IF chars[i] = from THEN to ELSE chars[i]]

\* base_dir.join(file_name) with set_extension(ext).
LayerPath(layer_digest, ext) ==
    <<"layers_cache", Replace(layer_digest, ":", "-"), ext>>

\* Path::exists
Exists(cache, path) == cache.exists /\ path \in DOMAIN cache.files

\* File::create, or OpenOptions with create and truncate; a write.
WithFile(cache, path, content) ==
    [cache EXCEPT !.files =
        [q \in DOMAIN @ \cup {path} |-> IF q = path THEN content ELSE @[q]]]

\* std::fs::remove_dir_all(base_dir)
RemoveDirAll(cache) == NoCache

\* The magnitude of the offset instead of its two's complement.
AsU64Abs(offset) ==
    IF offset >= 0
    THEN <<0, 0, offset \div 65536, offset % 65536>>
    ELSE <<0, 0, (0 - offset) \div 65536, (0 - offset) % 65536>>

\* chunk.offset as u64: the two's complement of an i64, as four 16-bit
\* limbs, most significant first.
AsU64(offset) ==
    IF offset >= 0
    THEN <<0, 0, offset \div 65536, offset % 65536>>
    ELSE LET below == (0 - offset) - 1 IN
         <<65535, 65535, 65535 - (below \div 65536), 65535 - (below % 65536)>>

\* File::seek(SeekFrom::Start(pos)): the position is handed to the system
\* as a signed 64-bit offset, and a negative one is refused.
SeekStart(pos) ==
    IF pos[1] >= 32768 THEN [ok |-> FALSE, pos |-> 0]
    ELSE [ok |-> TRUE, pos |-> pos[3] * 65536 + pos[4]]

\* write_all(data) at position pos of a file; a gap reads as zeroes.
WriteAt(file, pos, data) ==
    LET start == pos \div BlockLen
        len == IF Len(file) > start + Len(data) THEN Len(file)
               ELSE start + Len(data) IN
    [i \in 1..len |-> IF i > start /\ i <= start + Len(data) THEN data[i - start]
                      ELSE IF i <= Len(file) THEN file[i]
                      ELSE ZeroBlock]

\* GzDecoder read to its end by io::copy: the blocks inflated, and whether
\* the member was complete.  The blocks inflated before an error have been
\* copied.
RECURSIVE Inflate(_, _)
Inflate(blocks, out) ==
    IF blocks = <<>> THEN [ok |-> FALSE, out |-> out]
    ELSE IF Head(blocks).kind = "deflate"
    THEN Inflate(Tail(blocks), Append(out, Head(blocks).out))
    ELSE IF Head(blocks).kind = "gzip trailer"
    THEN [ok |-> Head(blocks).isize = Len(out) * BlockLen, out |-> out]
    ELSE [ok |-> FALSE, out |-> out]

Gunzip(blocks) ==
    IF blocks = <<>> \/ Head(blocks).kind # "gzip header"
    THEN [ok |-> FALSE, out |-> <<>>]
    ELSE Inflate(Tail(blocks), <<>>)

\* Seek(End(0)): the size of a file in bytes.
Size(file) == Len(file) * BlockLen

\* The root of the dm-verity tree of a file: a value only that content has.
VerityRoot(file) == <<"verity root", file>>

\* format!("{:x}", hash)
LowerHex(hash) == <<"hex", hash>>

\* The bytes of a string as the content of a file, and read_to_string; a
\* string is a sequence, "" the empty one.
TextFile(text) == IF text = <<>> THEN <<>> ELSE <<[kind |-> "text", text |-> text]>>
ReadToString(file) == IF file = <<>> THEN <<>> ELSE file[1].text

\* tarindex::append_index: the tarfs index of the tar, after the tar.
AppendIndex(tar) == Append(tar, [kind |-> "tarfs index", of |-> tar])

\* delete_files: the three futures of tokio::fs::remove_file are dropped
\* without being awaited, and a future that is never polled removes nothing.
DeleteFiles(cache, decompressed_path, compressed_path, verity_path) == cache

\* The locals of get_image_layers and of the get_verity_hash it is in.
IdleRun ==
    [pc |-> "idle", run |-> 0, use_cached_files |-> FALSE, at |-> 0,
     layer_index |-> 0, layersVec |-> <<>>, result |-> "none",
     \* history: hashed, the digests get_verity_hash was called with; steps,
     \* the steps taken for the layer; reused, the cached file it started from
     verity_hash |-> <<>>, error |-> FALSE, stream |-> <<>>, hash |-> <<>>,
     steps |-> <<>>, stdout |-> <<>>, hashed |-> <<>>, reused |-> "none"]

LayerInit ==
    /\ AgentInit
    /\ host_data = ZeroHostData
    /\ default_policy = PolicyA.text
    /\ fn = "none"
    /\ fn_args = <<>>
    /\ fn_out = NoOutput
    /\ image \in Images
    /\ layers_cache = NoCache
    /\ gen = IdleRun
    /\ returned = {}

\* The layer the loop of get_image_layers is at, and its three files.
Layer == image.layers[gen.at]
DecompressedPath == LayerPath(Layer.digest, "tar")
CompressedPath == LayerPath(Layer.digest, "gz")
VerityPath == LayerPath(Layer.digest, "verity")

\* A step of the layer's pipeline starts, and ends well or with an error.
Started(steps, step) == Append(steps, [step |-> step, done |-> "started"])
Ended(steps, done) == [steps EXCEPT ![Len(steps)].done = done]
Step(steps, step, done) == Append(steps, [step |-> step, done |-> done])

\* A layer of another media type is passed over, and counted as a gzip
\* layer.
SkipLayerCounted(g) == [g EXCEPT !.at = @ + 1, !.layer_index = @ + 1]

\* A layer of another media type is passed over.
SkipLayer(g) == [g EXCEPT !.at = @ + 1]

\* A run of the generator on the image reaches get_image_layers.
get_image_layers ==
    /\ gen.pc = "idle"
    /\ gen.run < MaxRuns
    /\ \E use_cached_files \in BOOLEAN :
          gen' = [IdleRun EXCEPT !.pc = "for layer", !.run = gen.run + 1,
                                 !.use_cached_files = use_cached_files,
                                 !.at = 1]
    /\ UNCHANGED <<agent, fncall, image, layers_cache, returned>>

\* One turn of the loop over manifest["layers"], up to the call of
\* get_verity_hash, or the return.
ForLayer ==
    /\ gen.pc = "for layer"
    /\ IF gen.at > Len(image.layers)
       THEN gen' = [gen EXCEPT !.pc = "idle", !.result = "Ok"]
       ELSE IF Layer.mediaType # GzipLayerMediaType
       THEN gen' = SkipLayer(gen)
       ELSE IF gen.layer_index < Len(image.diff_ids)
       THEN gen' = [gen EXCEPT !.pc = "get_verity_hash", !.verity_hash = <<>>,
                               !.error = FALSE, !.steps = <<>>,
                               !.hash = <<>>, !.stream = <<>>,
                               !.reused = "none",
                               !.hashed = Append(@, Layer.digest)]
       ELSE gen' = [gen EXCEPT !.pc = "idle",
                               !.result = "Err: Too many Docker gzip layers"]
    /\ UNCHANGED <<agent, fncall, image, layers_cache, returned>>

get_verity_hash ==
    /\ gen.pc = "get_verity_hash"
    /\ IF gen.use_cached_files /\ Exists(layers_cache, VerityPath)
       THEN gen' = [gen EXCEPT !.pc = "read_to_string", !.reused = "verity"]
       ELSE gen' = [gen EXCEPT !.pc = "create_verity_hash_file"]
    /\ UNCHANGED <<agent, fncall, image, layers_cache, returned>>

create_verity_hash_file ==
    /\ gen.pc = "create_verity_hash_file"
    /\ IF gen.use_cached_files /\ Exists(layers_cache, DecompressedPath)
       THEN /\ gen' = [gen EXCEPT !.pc = "do_create_verity_hash_file",
                                  !.reused = "tar"]
            /\ UNCHANGED layers_cache
       ELSE /\ layers_cache' = [layers_cache EXCEPT !.exists = TRUE]
            /\ gen' = [gen EXCEPT !.pc = "create_decompressed_layer_file"]
    /\ UNCHANGED <<agent, fncall, image, returned>>

create_decompressed_layer_file ==
    /\ gen.pc = "create_decompressed_layer_file"
    /\ IF gen.use_cached_files /\ Exists(layers_cache, CompressedPath)
       THEN /\ gen' = [gen EXCEPT !.pc = "decompress", !.reused = "gz"]
            /\ UNCHANGED layers_cache
       ELSE /\ layers_cache' = WithFile(layers_cache, CompressedPath, <<>>)
            /\ gen' = [gen EXCEPT !.pc = "stream",
                                  !.stream = Stream(image.content, gen.at),
                                  !.steps = Started(@, "download")]
    /\ UNCHANGED <<agent, fncall, image, returned>>

\* One turn of the loop over stream.message(), or the flush after it.
StreamMessage ==
    /\ gen.pc = "stream"
    /\ IF gen.stream = <<>>
       THEN /\ gen' = [gen EXCEPT !.pc = "decompress",
                                  !.steps = Ended(@, "ok")]
            /\ UNCHANGED layers_cache
       ELSE LET chunk == Head(gen.stream)
                stdout == IF chunk.offset < 0 THEN Append(gen.stdout, "oop")
                          ELSE gen.stdout
                seek == SeekStart(AsU64(chunk.offset)) IN
            IF seek.ok
            THEN /\ layers_cache' =
                      WithFile(layers_cache, CompressedPath,
                               WriteAt(layers_cache.files[CompressedPath],
                                       seek.pos, chunk.data))
                 /\ gen' = [gen EXCEPT !.stream = Tail(@), !.stdout = stdout]
            ELSE /\ gen' = [gen EXCEPT !.pc = "cleanup", !.error = TRUE,
                                       !.stdout = stdout,
                                       !.steps = Ended(@, "err")]
                 /\ UNCHANGED layers_cache
    /\ UNCHANGED <<agent, fncall, image, returned>>

\* The compressed file is inflated into the decompressed one.
Decompress ==
    /\ gen.pc = "decompress"
    /\ IF ~Exists(layers_cache, CompressedPath)
       THEN /\ gen' = [gen EXCEPT !.pc = "cleanup", !.error = TRUE,
                                  !.steps = Step(@, "decompress", "err")]
            /\ UNCHANGED layers_cache
       ELSE LET gz == Gunzip(layers_cache.files[CompressedPath]) IN
            /\ layers_cache' = WithFile(layers_cache, DecompressedPath, gz.out)
            /\ gen' = IF gz.ok
                      THEN [gen EXCEPT !.pc = "append_index",
                                       !.steps = Step(@, "decompress", "ok")]
                      ELSE [gen EXCEPT !.pc = "cleanup", !.error = TRUE,
                                       !.steps = Step(@, "decompress", "err")]
    /\ UNCHANGED <<agent, fncall, image, returned>>

append_index ==
    /\ gen.pc = "append_index"
    /\ layers_cache' =
          WithFile(layers_cache, DecompressedPath,
                   AppendIndex(layers_cache.files[DecompressedPath]))
    /\ gen' = [gen EXCEPT !.pc = "do_create_verity_hash_file",
                          !.steps = Step(@, "append_index", "ok")]
    /\ UNCHANGED <<agent, fncall, image, returned>>

\* A file is too small only when it is empty.
TooSmallWhenEmpty(size) == size <= 0

\* if size < 4096
TooSmall(size) == size < VerityBlockSize

\* do_create_verity_hash_file up to the hash as a string.
do_create_verity_hash_file ==
    /\ gen.pc = "do_create_verity_hash_file"
    /\ IF ~Exists(layers_cache, DecompressedPath)
       THEN gen' = [gen EXCEPT !.pc = "cleanup", !.error = TRUE,
                               !.steps = Step(@, "hash", "err")]
       ELSE LET file == layers_cache.files[DecompressedPath] IN
            IF TooSmall(Size(file))
            THEN gen' = [gen EXCEPT !.pc = "cleanup", !.error = TRUE,
                                    !.steps = Step(@, "hash", "err")]
            ELSE gen' = [gen EXCEPT !.pc = "write verity",
                                    !.hash = LowerHex(VerityRoot(file)),
                                    !.steps = Step(@, "hash", "ok")]
    /\ UNCHANGED <<agent, fncall, image, layers_cache, returned>>

\* do_create_verity_hash_file creates and writes the verity file.
WriteVerity ==
    /\ gen.pc = "write verity"
    /\ layers_cache' = WithFile(layers_cache, VerityPath, TextFile(gen.hash))
    /\ gen' = [gen EXCEPT !.pc = "read_to_string",
                          !.steps = Step(@, "write verity", "ok")]
    /\ UNCHANGED <<agent, fncall, image, returned>>

\* get_verity_hash reads the verity file.
ReadVerity ==
    /\ gen.pc = "read_to_string"
    /\ IF Exists(layers_cache, VerityPath)
       THEN gen' = [gen EXCEPT !.pc = "cleanup",
                        !.verity_hash =
                            ReadToString(layers_cache.files[VerityPath])]
       ELSE gen' = [gen EXCEPT !.pc = "cleanup", !.error = TRUE]
    /\ UNCHANGED <<agent, fncall, image, layers_cache, returned>>

\* The end of get_verity_hash: the cache is cleaned, then it panics or
\* returns the hash, which get_image_layers pushes with the layer's diff_id.
Cleanup ==
    /\ gen.pc = "cleanup"
    /\ layers_cache' =
          IF ~gen.use_cached_files THEN RemoveDirAll(layers_cache)
          ELSE IF gen.error
          THEN DeleteFiles(layers_cache, DecompressedPath, CompressedPath,
                           VerityPath)
          ELSE layers_cache
    /\ IF gen.error
       THEN /\ gen' = [gen EXCEPT !.pc = "idle", !.result = "panicked"]
            /\ UNCHANGED returned
       ELSE /\ gen' = [gen EXCEPT
                        !.pc = "for layer",
                        !.layersVec =
                            Append(@, [diff_id |-> image.diff_ids[gen.layer_index + 1],
                                       verity_hash |-> gen.verity_hash]),
                        !.layer_index = @ + 1,
                        !.at = @ + 1]
            /\ returned' = returned \cup {<<Layer.digest, gen.verity_hash>>}
    /\ UNCHANGED <<agent, fncall, image>>

\* The generator is interrupted: the process ends where it is.  An
\* interruption of the last run is left out: no run comes after it.
Interrupt ==
    /\ gen.pc \notin {"idle", "none"}
    /\ gen.run < MaxRuns
    /\ gen' = [gen EXCEPT !.pc = "idle", !.result = "interrupted"]
    /\ UNCHANGED <<agent, fncall, image, layers_cache, returned>>

LayerNext ==
    \/ get_image_layers
    \/ ForLayer
    \/ get_verity_hash
    \/ create_verity_hash_file
    \/ create_decompressed_layer_file
    \/ StreamMessage
    \/ Decompress
    \/ append_index
    \/ do_create_verity_hash_file
    \/ WriteVerity
    \/ ReadVerity
    \/ Cleanup
    \/ Interrupt

LayerSpec == LayerInit /\ [][LayerNext]_vars

\* The layers of a manifest that have the gzip media type, in its order.
RECURSIVE GzipLayers(_)
GzipLayers(layers) ==
    IF layers = <<>> THEN <<>>
    ELSE IF Head(layers).mediaType = GzipLayerMediaType
    THEN <<Head(layers)>> \o GzipLayers(Tail(layers))
    ELSE GzipLayers(Tail(layers))

\* get_image_layers returned, Ok or Err.
GetImageLayersOk == gen.pc = "idle" /\ gen.result = "Ok"
GetImageLayersErr ==
    gen.pc = "idle" /\ gen.result = "Err: Too many Docker gzip layers"

\* C22: get_image_layers hashes the gzip layers one after another in
\* manifest order; when it returns Ok it returns one layer per gzip layer of
\* the manifest, in manifest order, the k-th with the k-th diff_id and with
\* the hash get_verity_hash returned for the k-th gzip layer; it never
\* returns Ok when the gzip layers outnumber the diff_ids, and the error it
\* returns then comes at the first gzip layer beyond the diff_ids.
C22_LayersInManifestOrder ==
    LET gzip == GzipLayers(image.layers) IN
    gen.pc # "none" =>
        /\ Len(gen.hashed) <= Len(gzip)
        /\ \A k \in 1..Len(gen.hashed) : gen.hashed[k] = gzip[k].digest
        /\ Len(gen.layersVec) <= Len(gen.hashed)
        /\ \A k \in 1..Len(gen.layersVec) :
              /\ gen.layersVec[k].diff_id = image.diff_ids[k]
              /\ <<gzip[k].digest, gen.layersVec[k].verity_hash>> \in returned
        /\ GetImageLayersOk =>
              /\ Len(gen.layersVec) = Len(gzip)
              /\ Len(gzip) <= Len(image.diff_ids)
        /\ GetImageLayersErr =>
              /\ Len(gzip) > Len(image.diff_ids)
              /\ Len(gen.hashed) = Len(image.diff_ids)

\* A gzip layer after a layer of another type: it is the one layer
\* returned, with the first diff_id and the hash of the second digest.
C22_Witness ==
    /\ GetImageLayersOk
    /\ Len(image.layers) = 2
    /\ image.layers[1].mediaType # GzipLayerMediaType
    /\ image.layers[2].mediaType = GzipLayerMediaType
    /\ Len(gen.layersVec) = 1
    /\ gen.layersVec[1].diff_id = DiffId(1)
    /\ gen.hashed = <<Digest(2)>>
    /\ <<Digest(2), gen.layersVec[1].verity_hash>> \in returned

\* More gzip layers than diff_ids: the error.
C22_WitnessTooMany ==
    /\ GetImageLayersErr
    /\ Len(GzipLayers(image.layers)) = 2
    /\ Len(image.diff_ids) = 1

\* C23: get_image_layers returns Ok only when the manifest has as many gzip
\* layers as the image config has diff_ids.
C23_OneToOne ==
    GetImageLayersOk => Len(GzipLayers(image.layers)) = Len(image.diff_ids)

\* The loop of create_decompressed_layer_file is at a chunk with a negative
\* offset.
AtNegativeChunk ==
    /\ gen.pc = "stream"
    /\ gen.stream # <<>>
    /\ Head(gen.stream).offset < 0

\* The run has met a chunk with a negative offset.
MetNegativeChunk == gen.pc # "none" /\ gen.stdout # <<>>

\* C24 for the chunk itself: the step that takes a chunk with a negative
\* offset ends the layer's processing with an error and writes nothing.
NegativeChunkStops ==
    (AtNegativeChunk /\ gen'.result # "interrupted") =>
        /\ gen'.error
        /\ gen'.pc = "cleanup"
        /\ layers_cache' = layers_cache

\* C24 for what follows: after such a chunk no later chunk is taken, no hash
\* is returned for the layer, and the run does not return.
NegativeChunkFatal ==
    MetNegativeChunk =>
        /\ gen.error
        /\ gen.pc \in {"cleanup", "idle"}
        /\ gen.result \in {"none", "panicked", "interrupted"}
        /\ Len(gen.layersVec) < Len(gen.hashed)
        /\ gen.verity_hash = <<>>

\* C24: while a layer is streamed into the compressed file, a chunk with a
\* negative offset is fatal: processing stops with an error at that chunk,
\* nothing of that chunk or of a later one is written, and no verity hash is
\* produced for the layer.
C24_NegativeOffsetFatal == []NegativeChunkFatal /\ [][NegativeChunkStops]_vars

\* A run with caching that met the negative offset in the second chunk of
\* the first layer: it panicked, and the compressed file holds the first
\* chunk only.
C24_Witness ==
    /\ gen.pc = "idle"
    /\ gen.result = "panicked"
    /\ gen.use_cached_files
    /\ gen.stdout = <<"oop">>
    /\ gen.hashed = <<Digest(1)>>
    /\ layers_cache.files[LayerPath(Digest(1), "gz")] =
          <<GzHeader, Deflated(TarBlock(1, 1))>>

\* The three files of the layer get_verity_hash is in.
LayerFiles == {DecompressedPath, CompressedPath, VerityPath}

\* C25: at the end of get_verity_hash, with caching disabled the whole
\* layers_cache directory is removed, on success and on error alike; with
\* caching enabled and an error, exactly the three files of this layer are
\* removed, so that none of them exists afterwards and the files of other
\* layers are untouched; with caching enabled and no error nothing is
\* removed.
CleanupAsClaimed ==
    (gen.pc = "cleanup" /\ gen'.result # "interrupted") =>
        IF ~gen.use_cached_files THEN layers_cache' = NoCache
        ELSE IF gen.error
        THEN /\ \A path \in LayerFiles : ~Exists(layers_cache', path)
             /\ \A path \in DOMAIN layers_cache.files \ LayerFiles :
                   /\ Exists(layers_cache', path)
                   /\ layers_cache'.files[path] = layers_cache.files[path]
        ELSE layers_cache' = layers_cache

C25_CacheCleanup == [][CleanupAsClaimed]_vars

\* The compressed file a stream leaves when every chunk is written at its
\* offset.
RECURSIVE Assembled(_, _)
Assembled(stream, file) ==
    IF stream = <<>> THEN file
    ELSE Assembled(Tail(stream), WriteAt(file, Head(stream).offset, Head(stream).data))

\* The hash of the layer at position k when nothing is taken from the cache:
\* the hash of the inflated content with its index.
HashOfContent(content, k) ==
    LowerHex(VerityRoot(AppendIndex(Gunzip(Assembled(Stream(content, k), <<>>)).out)))

\* C26: the same layer digest and content yield the same verity hash in
\* every run, with caching enabled or disabled and whatever files earlier
\* runs, failed or interrupted ones included, left in layers_cache: any two
\* hashes returned for a digest are equal, and equal to the hash of the
\* layer's content.
C26_StableVerityHashes ==
    \A r \in returned :
        /\ \A k \in 1..MaxLayers : r[1] = Digest(k) =>
               r[2] = HashOfContent(image.content, k)
        /\ \A q \in returned : q[1] = r[1] => q[2] = r[2]

\* The steps of a layer's pipeline.
Pipeline == <<"download", "decompress", "append_index", "hash", "write verity">>

\* The step the pipeline starts at, given the cached file it starts from.
FirstStep(reused) ==
    CASE reused = "none" -> 1 [] reused = "gz" -> 2 [] reused = "tar" -> 4
      [] reused = "verity" -> 6

\* C28, the order: the steps taken for a layer are consecutive steps of
\* download, decompress, append index, hash, write verity, starting with the
\* download when no cached file is used; each starts only after the one
\* before it succeeded; the verity file is written only after the hash was
\* computed, and with that hash; a layer whose hash is returned without the
\* cached verity file went through all the steps to the last.
PipelineInOrder ==
    gen.pc \notin {"none", "idle", "for layer"} =>
        LET steps == gen.steps
            first == FirstStep(gen.reused) IN
        /\ Len(steps) <= 6 - first
        /\ \A i \in 1..Len(steps) : steps[i].step = Pipeline[first + i - 1]
        /\ \A i \in 1..(Len(steps) - 1) : steps[i].done = "ok"
        /\ ~gen.use_cached_files => gen.reused = "none"
        /\ \A i \in 1..Len(steps) : steps[i].step = "write verity" =>
              /\ i > 1
              /\ steps[i - 1] = [step |-> "hash", done |-> "ok"]
              /\ gen.hash # <<>>
              /\ layers_cache.files[VerityPath] = TextFile(gen.hash)
        /\ (gen.pc = "cleanup" /\ ~gen.error /\ gen.reused # "verity") =>
              steps[Len(steps)] = [step |-> "write verity", done |-> "ok"]
        /\ (steps # <<>> /\ steps[Len(steps)].done = "err") =>
              gen.pc = "cleanup" /\ gen.error

\* C28, the small file: hashing a decompressed file of less than 4096 bytes
\* fails with an error, and no verity file is written.
SmallFileFails ==
    (/\ gen.pc = "do_create_verity_hash_file"
     /\ Exists(layers_cache, DecompressedPath)
     /\ Size(layers_cache.files[DecompressedPath]) < 4096
     /\ gen'.result # "interrupted") =>
        /\ gen'.error
        /\ gen'.pc = "cleanup"
        /\ gen'.steps[Len(gen'.steps)] = [step |-> "hash", done |-> "err"]
        /\ layers_cache' = layers_cache

C28_WitnessSmall ==
    /\ gen.pc = "cleanup"
    /\ gen.error
    /\ image.content = "small"
    /\ gen.steps[Len(gen.steps)] = [step |-> "hash", done |-> "err"]
    /\ ~Exists(layers_cache, VerityPath)

\* C27: cc-policy exits 0 only on success: when neither or both of --input
\* and --image_ref are given, or when the generation fails for a document
\* of the input (or for the image), the run ends with a non-zero exit code
\* and a message and writes no output file.
C27_ExitNonZeroOnFatalError ==
    Applied("main") =>
        LET args == fn_args.args
            docs == fn_args.file.docs
            neither == ~args.input_yaml.some /\ ~args.image_ref.some
            both == args.input_yaml.some /\ args.image_ref.some
            document_fails ==
                /\ args.input_yaml.some /\ ~args.image_ref.some
                /\ \/ ~fn_args.file.readable
                   \/ ~fn_args.dry_run_ok
                   \/ \E i \in DOMAIN docs : docs[i].kind = "malformed"
                   \/ docs # <<>> /\ ~fn_args.generates
            image_fails ==
                /\ args.image_ref.some /\ ~args.input_yaml.some
                /\ ~fn_args.image_ok IN
        (neither \/ both \/ document_fails \/ image_fails) =>
            /\ fn_out.exit_code # 0
            /\ fn_out.message # ""
            /\ fn_out.files = {}

\* C30: the output of create_and_inject_policy has as many documents as the
\* input, in the same order, and each output document that has the
\* annotation has the policy generated from the resolved form of that same
\* document.
C30_EachDocumentItsOwnPolicy ==
    (Applied("create_and_inject_policy") /\ fn_out.ok) =>
        LET docs == fn_args.file.docs
            out == fn_out.val.yaml_with_policy IN
        /\ Len(out) = Len(docs)
        /\ \A i \in DOMAIN out :
              /\ [out[i] EXCEPT !.annotation = None] = docs[i]
              /\ out[i].annotation.some =>
                    out[i].annotation.val.policy =
                        PolicyBase64(ResolvedDoc(docs[i]))

\* Every call comes to its end, and a caller whose call is over does not
\* hold the AGENT_POLICY lock.
CallsEndAndUnlock ==
    /\ \A p \in Procs : (pc[p] # "idle") ~> (pc[p] = "idle")
    /\ [](\A p \in Procs : pc[p] = "idle" => lock # p)

\* A call ends by returning Ok or an error, and the return leaves the lock
\* free.
EndsWithDecision ==
    \A p \in Procs :
        (pc[p] # "idle" /\ pc'[p] = "idle") =>
            /\ pc[p] = "return"
            /\ cur.result # "pending"
            /\ lock' = NoProc

\* C29: when the engine answers or fails every HTTP call and the lock is
\* granted fairly, every call of is_allowed, is_allowed_copy_file and
\* do_set_policy comes to its end, it ends by returning allow or an error,
\* and on every return path the AGENT_POLICY lock is released.
C29_EveryCallReturnsAndUnlocks ==
    /\ CallsEndAndUnlock
    /\ [][EndsWithDecision]_vars

\* do_set_policy is about to return while another caller waits in lock().
C29_Witness ==
    \E p, q \in Procs :
        /\ pc[p] = "return"
        /\ op[p].kind = "do_set_policy"
        /\ lock = p
        /\ pc[q] = "lock"

====
